---- MODULE Spec2Model ----
(***************************************************************************)
(* Trust0 service-proxy plane, the gateway's data and its ASN.1 decoding.   *)
(*                                                                         *)
(*   - the gateway service manager (crates/gateway/src/service/manager.rs) *)
(*   - the client service manager  (crates/client/src/service/manager.rs)  *)
(*   - the TCP connection state machine                                    *)
(*                        (crates/common/src/net/tcp_server/conn_std.rs)   *)
(*   - the UDP server                                                      *)
(*                        (crates/common/src/net/udp_server/server_std.rs) *)
(*   - the in-memory service and access repositories                       *)
(*                        (crates/gateway/src/repository)                  *)
(*   - the ALPN protocols of the gateway's TLS configuration               *)
(*                        (crates/gateway/src/config.rs)                   *)
(*   - stringify_asn_value (crates/common/src/crypto/asn.rs)               *)
(*   - parse_gateway_service_ports (crates/gateway/src/config.rs)          *)
(*                                                                         *)
(* One service manager runs per process, a gateway's or a client's (chosen *)
(* in MgrInit).  SpecMgr runs it under its control-plane calls (startup,   *)
(* shutdown); SpecBus runs it under startups, the tunnels of the           *)
(* per-service visitors and the proxy event poller.  SpecConn runs         *)
(* poll_connection of one accepted connection, SpecConnFair with the       *)
(* polling thread scheduled fairly, SpecIO its read, write, shutdown and   *)
(* set_closed called directly.  SpecPoll runs the event poller under every *)
(* kind of event,                                                          *)
(* SpecOps the manager under startups, shutdowns and the bus together,     *)
(* SpecUdp the UDP server under its calls and its polling loop, SpecQuery   *)
(* the gateway manager under the bus and has_proxy_for_user_and_service.   *)
(* SpecRepo runs a repository under its calls, SpecAlpn the service        *)
(* repository with the TLS configuration built from it, SpecAsn calls      *)
(* stringify_asn_value on ASN.1 values.  SpecAccess runs the access        *)
(* repository with get_all_for_user, SpecPeerClosed poll_connection on a   *)
(* connection whose peer has closed, SpecLocks the threads of a manager    *)
(* process lock by lock, SpecParse calls parse_gateway_service_ports.      *)
(***************************************************************************)
EXTENDS Integers, Sequences, FiniteSets, TLC

(***************************************************************************)
(* Bounds of the model                                                     *)
(***************************************************************************)
\* number of ordinary service ids (200, 201, ...); u64::MAX is always added
MaxServices == 1
\* number of user ids (100, 101, ...)
MaxUsers == 1
\* number of proxy keys
MaxKeys == 1
\* number of ports of a distinct-port range [start, end]
RangeLen == 1
\* failed visitor constructions (each takes a port in distinct-port mode)
MaxVisitorFails == 1
\* events that other threads put on a connection's event channel
MaxSends == 2
\* the counters of side effects saturate here
CountCap == 3
\* bytes of the buffer of a Write event
BufLen == 2
\* a write may stop half-way (WouldBlock) while the stream took fewer bytes
MaxWritten == 2
\* full chunks the stream delivers to one read_tcp_stream
MaxChunks == 1
\* a direct call of read / write / shutdown begins with fewer events than
\* this on the event channel
MaxQueued == 2
\* ProxyEvent::Message events waiting on the proxy event channel
MaxMessages == 1
\* datagrams the network brings to the UDP server
MaxDatagrams == 2
\* records of the JSON array a repository is loaded from
MaxRecords == 2
\* content octets / characters of an ASN.1 value
MaxAsnLen == 2

(***************************************************************************)
(* Program constants                                                       *)
(***************************************************************************)
\* u16::MAX, the largest value of next_service_port / last_service_port
U16_MAX == 65535
\* u64::MAX, the "no such service" id of on_closed_proxy.  Service ids are
\* only compared, never computed with, and TLC's integers have 32 bits: the
\* all-ones id is written -1 (its two's complement reading).
U64_MAX == -1
DEFAULT_SERVICE_PORT_START == 8200
DEFAULT_SERVICE_PORT_END == 8250
\* the ports the manager's unit tests configure
GATEWAY_SHARED_PORT == 4000
GATEWAY_DISTINCT_PORT_START == 4100
\* app_config.gateway_service_host
GATEWAY_HOST == "gwhost1"
\* the size of the chunk buffer of read_tcp_stream
READ_BLOCK_SIZE == 1024

ServiceIds == (200 .. (199 + MaxServices)) \cup {U64_MAX}
UserIds == 100 .. (99 + MaxUsers)
ProxyKeys == 1 .. MaxKeys
Transports == {"TCP", "UDP"}
\* Service {service_id, transport}; name, host and port play no part here
Services == [service_id : ServiceIds, transport : Transports]

\* Option<T>: None is the empty sequence, Some(v) the sequence of v
None == << >>
Some(v) == << v >>
IsSome(o) == Len(o) = 1
Unwrap(o) == o[1]

\* Result<T, AppError>
Ok(v) == [ok |-> TRUE, val |-> v]
Err(e) == [ok |-> FALSE, err |-> e]

\* app_config.gateway_service_ports: None (shared port) or Some((start, end))
PortRanges ==
    { Some(<< GATEWAY_DISTINCT_PORT_START, GATEWAY_DISTINCT_PORT_START + RangeLen - 1 >>),
      Some(<< U16_MAX - RangeLen + 1, U16_MAX >>),
      None }

\* ProxyAddrs(client_port, gateway_host, gateway_port)
ProxyAddrsSet == { << 9000, "gw", 443 >>, << 9001, "gw", 443 >> }

VARIABLES
    \* ---- the process
    side,                   \* "gateway" | "client" ("none": no manager runs)
    gateway_service_ports,  \* app_config.gateway_service_ports
    overflow_checks,        \* build profile: TRUE = overflow panics (debug)
    panicked,               \* a manager call panicked holding the manager mutex
    visitor_fails,          \* visitor constructions that failed so far
    \* ---- GatewayServiceMgr / ServiceMgr fields
    shared_service_port,
    next_service_port,
    last_service_port,
    service_ports,          \* gateway: service id -> port
    service_addrs,          \* client:  service id -> ProxyAddrs
    service_proxies,        \* service id -> proxy
    service_proxy_visitors, \* service id -> visitor
    service_proxy_threads,  \* service id -> listener thread
    services_by_proxy_key,  \* the registry: proxy key -> service id
    \* ---- the visitors' own state
    proxy_conns,            \* service id -> set of <<user, key>>
    shutdown_requested,     \* service id -> BOOLEAN
    \* ---- the event bus and its poller
    proxy_events,           \* queue of ProxyEvent
    poller,                 \* the poller thread: [pc, key, service_id]
    tunnel,                 \* proxy key -> "idle" | "open" | "closed" | "reaped"
    \* ---- what the last manager call did
    result,                 \* the call and what it returned
    calls,                  \* service id -> the calls made on its visitor
    \* ---- Connection (conn_std.rs)
    conn_pc,                \* where poll_connection stands ("none": no connection)
    closed,                 \* Connection.closed
    event_channel,          \* the queue of ConnectionEvent
    sends_left,             \* events other threads may still send
    stream_shutdowns,       \* successful TcpStream::shutdown(Both) calls
    closed_sent,            \* Closed events sent by shutdown
    on_shutdown_calls,      \* calls of visitor.on_shutdown
    closing_handled,        \* Closing events poll_connection received
    written,                \* the bytes the TCP stream has taken, in order
    io,                     \* the last direct call of read / write and its outcome
    poll_cycle,             \* what the current cycle of poll_connection has done
    \* ---- UDP Server (server_std.rs)
    server_pc,              \* "none" | "idle" | "loop" | "poll" | "check" | "after"
    server_socket,          \* Server.server_socket.is_some()
    polling,                \* Server.polling
    closing,                \* Server.closing
    server_closed,          \* Server.closed
    polling_error,          \* poll_new_messages' local polling_error.is_some()
    shutdown_flag,          \* what the visitor's get_shutdown_requested() returns
    requested_at,           \* when shutdown_flag became true: "never", "iteration", "outside"
    polls_after_request,    \* iterations begun after a request made in an iteration
    delivered_after_request,\* datagrams handed to the visitor after such a request
    server_last,            \* the last call on the Server and what it returned
    datagrams,              \* datagrams handed to on_message_received so far
    accepted,               \* the polling loop's last call of accept_message
    \* ---- gateway repositories (repository/*/in_memory_repo.rs)
    repo_kind,              \* "none" | "service" | "access": the repository at hand
    repo_data,              \* its HashMap: key -> record
    repo_last,              \* the last call on the repository and what it returned
    \* ---- gateway TLS configuration (config.rs)
    alpn_protocols,         \* TlsServerConfigBuilder.alpn_protocols; << >> before AppConfig::new
    tls_alpn,               \* alpn_protocols of the ServerConfig of the last handshake
    handshakes,             \* TLS handshakes so far
    \* ---- the locks of the manager's threads (service/manager.rs)
    lock_owner,             \* lock -> the thread that holds it, or "none"
    thread_ops,             \* thread -> the lock operations it still has to do
    \* ---- the gateway's port range argument (config.rs)
    ports_arg,              \* the text handed to parse_gateway_service_ports
    ports_parsed,           \* what it returned for it
    \* ---- ASN.1 values (crypto/asn.rs)
    asn_attr,               \* the Any handed to stringify_asn_value
    asn_result              \* what stringify_asn_value gave for it

mgrVars == << side, gateway_service_ports, overflow_checks, panicked, visitor_fails, shared_service_port,
              next_service_port, last_service_port, service_ports, service_addrs,
              service_proxies, service_proxy_visitors, service_proxy_threads,
              services_by_proxy_key, proxy_conns, shutdown_requested,
              proxy_events, poller, tunnel, result, calls >>

connVars == << conn_pc, closed, event_channel, sends_left, stream_shutdowns,
               closed_sent, on_shutdown_calls, closing_handled, written, io,
               poll_cycle >>

udpVars == << server_pc, server_socket, polling, closing, server_closed,
              polling_error, shutdown_flag, requested_at, polls_after_request,
              delivered_after_request, server_last, datagrams, accepted >>

asnVars == << asn_attr, asn_result >>

lockVars == << lock_owner, thread_ops >>

parseVars == << ports_arg, ports_parsed >>

dataVars == << repo_kind, repo_data, repo_last, alpn_protocols, tls_alpn,
               handshakes, lockVars, parseVars, asnVars >>

vars == << mgrVars, connVars, udpVars, dataVars >>

NoCalls == [s \in ServiceIds |-> << >>]
EmptyMap == << >>
NoResult == [op |-> "none"]
NoIO == [op |-> "none"]

\* the polling loop of the UDP server has not called accept_message
NotAccepted == [called |-> FALSE, recv |-> "none", ret |-> Ok(<< >>),
                visited |-> FALSE, logged |-> FALSE]

\* a cycle of poll_connection's outer loop before its first statement: the
\* stream not read, on_polling_cycle not called, the 'EVENTS loop not left
NewCycle == [read |-> "none", on_polling_cycle |-> 0, drained |-> "no"]
IdlePoller == [pc |-> "recv", key |-> 0, service_id |-> U64_MAX]

\* faulty variant: an existing entry is kept
MapInsert_keep(m, k, v) ==
    [x \in (DOMAIN m) \cup {k} |-> IF x \in DOMAIN m THEN m[x] ELSE v]

\* HashMap::insert and HashMap::remove on a map kept as a function
MapInsert(m, k, v) == [x \in (DOMAIN m) \cup {k} |-> IF x = k THEN v ELSE m[x]]
MapRemove(m, k) == [x \in (DOMAIN m) \ {k} |-> m[x]]
\* HashMap::get
MapGet(m, k) == IF k \in DOMAIN m THEN Some(m[k]) ELSE None

(***************************************************************************)
(* GatewayServiceMgr                                                       *)
(***************************************************************************)

\* GatewayServiceMgr::new: the three port fields for a configured
\* gateway_service_ports and server_port
GatewayServiceMgr_new(service_ports_arg, server_port) ==
    IF IsSome(service_ports_arg)
    THEN [shared_service_port |-> None,
          next_service_port |-> Unwrap(service_ports_arg)[1],
          last_service_port |-> Unwrap(service_ports_arg)[2]]
    ELSE [shared_service_port |-> Some(server_port),
          next_service_port |-> DEFAULT_SERVICE_PORT_START,
          last_service_port |-> DEFAULT_SERVICE_PORT_END]

\* the exhaustion test of startup
PortsExhausted(next, last) == next > last

\* startup's choice of the service port.  `self.next_service_port += 1` on a
\* u16: at 65535 a build with overflow checks panics, any other build wraps to
\* 0, and `self.next_service_port - 1` then wraps to 65535.
\* outcome: "ok" (port, the new next), "exhausted", "panic"
AllocServicePort(shared, next, last, checks) ==
    IF IsSome(shared)
    THEN [outcome |-> "ok", port |-> Unwrap(shared), next |-> next]
    ELSE IF PortsExhausted(next, last)
    THEN [outcome |-> "exhausted", port |-> 0, next |-> next]
    ELSE IF next + 1 > U16_MAX /\ checks
    THEN [outcome |-> "panic", port |-> 0, next |-> next]
    ELSE LET n1 == (next + 1) % (U16_MAX + 1)
         IN  [outcome |-> "ok",
              port |-> (n1 - 1 + (U16_MAX + 1)) % (U16_MAX + 1),
              next |-> n1]

\* faulty variant: the visitor is not registered
RegisterVisitor_skip(visitors, service_id, visitor) == visitors

\* startup's insert into service_proxy_visitors, the same in both managers
RegisterVisitor(visitors, service_id, visitor) ==
    MapInsert(visitors, service_id, visitor)

\* faulty variant: a listener thread is recorded in either mode
RecordThread_always(threads, shared, service_id) ==
    MapInsert(threads, service_id, "running")

\* startup's record of the listener thread: the gateway spawns one, and
\* records it, only when it has no shared port
RecordThread(threads, shared, service_id) ==
    IF IsSome(shared) THEN threads ELSE MapInsert(threads, service_id, "running")

\* faulty variant: the started check never finds the service
GatewayServiceMgr_is_started_never(ports, service_id) == FALSE

\* startup, "check if already started": service_ports has the service id
GatewayServiceMgr_is_started(ports, service_id) == service_id \in DOMAIN ports

\* The manager mutex: the gateway's poller holds it from the call of
\* on_closed_proxy, the client's from its lookup of the visitor, until the
\* visitor's remove_proxy_for_key has returned
MgrLockFree == poller.pc \notin {"resolved", "registry"}

\* startup(service_mgr, service); visitor_ok: whether the visitor's
\* constructor (TcpGatewayProxyServerVisitor::new / Udp...::new) succeeds
GatewayServiceMgr_startup(service, visitor_ok) ==
    LET id == service.service_id
        alloc == AllocServicePort(shared_service_port, next_service_port,
                                  last_service_port, overflow_checks)
        started == GatewayServiceMgr_is_started(service_ports, id)
        call == [op |-> "startup", service_id |-> id, visitor_ok |-> visitor_ok]
    IN
    /\ side = "gateway" /\ ~panicked /\ MgrLockFree
    /\ visitor_ok \/ visitor_fails < MaxVisitorFails
    /\ calls' = NoCalls
    /\ visitor_fails' = IF ~started /\ alloc.outcome = "ok"
                            /\ ~visitor_ok
                         THEN visitor_fails + 1 ELSE visitor_fails
    /\ IF started
       THEN \* already started
            /\ result' = call @@ [ret |-> Ok(<< GATEWAY_HOST, service_ports[id] >>)]
            /\ UNCHANGED << panicked, next_service_port, service_ports,
                            service_proxies, service_proxy_visitors,
                            service_proxy_threads >>
       ELSE IF alloc.outcome = "exhausted"
       THEN /\ result' = call @@ [ret |-> Err("exhausted")]
            /\ UNCHANGED << panicked, next_service_port, service_ports,
                            service_proxies, service_proxy_visitors,
                            service_proxy_threads >>
       ELSE IF alloc.outcome = "panic"
       THEN /\ result' = call @@ [ret |-> Err("panic")]
            /\ panicked' = TRUE
            /\ UNCHANGED << next_service_port, service_ports, service_proxies,
                            service_proxy_visitors, service_proxy_threads >>
       ELSE IF ~visitor_ok
       THEN \* `?` on the visitor's constructor: the port is already taken
            /\ result' = call @@ [ret |-> Err("visitor")]
            /\ next_service_port' = alloc.next
            /\ UNCHANGED << panicked, service_ports, service_proxies,
                            service_proxy_visitors, service_proxy_threads >>
       ELSE /\ result' = call @@ [ret |-> Ok(<< GATEWAY_HOST, alloc.port >>)]
            /\ next_service_port' = alloc.next
            /\ service_ports' = MapInsert(service_ports, id, alloc.port)
            /\ service_proxies' = MapInsert(service_proxies, id,
                   [transport |-> service.transport, port |-> alloc.port])
            /\ service_proxy_visitors' = RegisterVisitor(service_proxy_visitors, id,
                   [service_id |-> id, port |-> alloc.port])
            /\ service_proxy_threads' =
                   RecordThread(service_proxy_threads, shared_service_port, id)
            /\ UNCHANGED panicked
    /\ UNCHANGED << connVars, udpVars, dataVars, side, gateway_service_ports, overflow_checks, shared_service_port, last_service_port,
                    service_addrs, services_by_proxy_key, proxy_conns,
                    shutdown_requested, proxy_events, poller, tunnel >>

\* ---- the per-service visitors (GatewayServiceProxyVisitor,
\* ---- ClientServiceProxyVisitor): their code is not part of the sources at
\* ---- hand, they follow the design's description

\* the visitor holds a connection for the proxy key
Visitor_has_proxy_key(conns, key) == \E c \in conns : c[2] = key

\* remove_proxy_for_key, first half: the visitor drops its own entry
Visitor_remove_local(conns, key) == { c \in conns : c[2] # key }

\* the record of a call on a visitor
Call(fn, arg) == [fn |-> fn, arg |-> arg]

\* the calls of one manager operation: `seq` on every visitor of `targets`
CallsOn(targets, seq) == [s \in ServiceIds |-> IF s \in targets THEN seq ELSE << >>]

\* The locks a thread holds while it runs a method of the manager and, from
\* there, locks a visitor: the manager lives in an Arc<Mutex<..>>, its methods
\* take &mut self out of the mutex guard, and the pollers keep the guard of
\* `service_mgr.lock().unwrap()` alive across the visitor call
MgrCallHolding == {"manager"}

\* the visitors a manager call reaches are identified by their service
VisitorId(visitor) == visitor.service_id

\* faulty variant: the service filter is dropped
ShutdownSelected_all(visitors, service_id) == DOMAIN visitors

\* shutdown_connections: the visitors the closure calls
ShutdownSelected(visitors, service_id) ==
    { s \in DOMAIN visitors : ~IsSome(service_id) \/ s = Unwrap(service_id) }

\* faulty variant: the walk ends at the first visitor that fails
ShutdownVisited_until_error(selected, failing) ==
    IF selected \cap failing = {} THEN selected
    ELSE { CHOOSE s \in selected \cap failing : TRUE }

\* shutdown_connections / shutdown: for_each goes over every selected
\* visitor, whichever of them fail
ShutdownVisited(selected, failing) == selected

\* shutdown_connections / shutdown: Err iff the errors vector is not empty
ShutdownResult(errors) ==
    IF errors # {} THEN Err([kind |-> "shutdown", failed |-> errors]) ELSE Ok(<< >>)

\* shutdown_connections(user_id, service_id); failing: the visitors whose
\* shutdown_connections returns Err
GatewayServiceMgr_shutdown_connections(user_id, service_id, failing) ==
    LET selected == ShutdownSelected(service_proxy_visitors, service_id)
        visited == ShutdownVisited(selected, failing)
        errors == visited \cap failing
    IN
    /\ side = "gateway" /\ ~panicked /\ MgrLockFree
    /\ failing \subseteq selected
    /\ calls' = CallsOn({ VisitorId(service_proxy_visitors[s]) : s \in visited },
                        << Call("shutdown_connections", user_id) >>)
    /\ result' = [op |-> "shutdown_connections", user_id |-> user_id,
                  service_id |-> service_id, failing |-> failing,
                  holding |-> MgrCallHolding,
                  ret |-> ShutdownResult(errors)]
    /\ UNCHANGED << connVars, udpVars, dataVars, side, gateway_service_ports, overflow_checks, panicked, visitor_fails,
                    shared_service_port, next_service_port, last_service_port,
                    service_ports, service_addrs, service_proxies,
                    service_proxy_visitors, service_proxy_threads,
                    services_by_proxy_key, proxy_conns, shutdown_requested,
                    proxy_events, poller, tunnel >>

\* get_proxy_addrs_for_user of a visitor: the addresses of the user's tunnels
Visitor_get_proxy_addrs_for_user(conns, user_id) ==
    { c \in conns : c[1] = user_id }

\* faulty variant: a registered visitor is enough
HasProxyAnswer_registered(visitor, addrs) == IsSome(visitor)

\* has_proxy_for_user_and_service, the match on the visitor looked up:
\* Some => !addrs.is_empty(), None => false
HasProxyAnswer(visitor, addrs) == IsSome(visitor) /\ addrs # {}

\* has_proxy_for_user_and_service(user_id, service_id)
GatewayServiceMgr_has_proxy_for_user_and_service(user_id, service_id) ==
    LET v == MapGet(service_proxy_visitors, service_id)
        vid == VisitorId(Unwrap(v))
        addrs == IF IsSome(v)
                 THEN Visitor_get_proxy_addrs_for_user(proxy_conns[vid], user_id)
                 ELSE {}
    IN
    /\ side = "gateway" /\ ~panicked /\ MgrLockFree
    /\ calls' = IF IsSome(v)
                THEN CallsOn({vid}, << Call("get_proxy_addrs_for_user", user_id) >>)
                ELSE NoCalls
    /\ result' = [op |-> "has_proxy_for_user_and_service", user_id |-> user_id,
                  service_id |-> service_id, holding |-> MgrCallHolding,
                  ret |-> HasProxyAnswer(v, addrs)]
    /\ UNCHANGED << connVars, udpVars, dataVars, side, gateway_service_ports, overflow_checks, panicked, visitor_fails,
                    shared_service_port, next_service_port, last_service_port,
                    service_ports, service_addrs, service_proxies,
                    service_proxy_visitors, service_proxy_threads,
                    services_by_proxy_key, proxy_conns, shutdown_requested,
                    proxy_events, poller, tunnel >>

\* faulty variant: the registry is not consulted
ResolveServiceId_no_lookup(registry, key) == U64_MAX

\* get_service_id_by_proxy_key(proxy_key).unwrap_or(u64::MAX)
ResolveServiceId(registry, key) ==
    LET found == MapGet(registry, key)
    IN  IF IsSome(found) THEN Unwrap(found) ELSE U64_MAX

\* faulty variant: some registered visitor is taken, whatever its service
ClosedProxyVisitor_any(visitors, service_id) ==
    IF DOMAIN visitors = {} THEN None
    ELSE Some(visitors[CHOOSE s \in DOMAIN visitors : TRUE])

\* on_closed_proxy: the visitor, if any, that is told to remove the key
ClosedProxyVisitor(visitors, service_id) == MapGet(visitors, service_id)

\* The reaction to Closed(key) once the service id is resolved, shared by both
\* managers: the visitor of service_id, if there is one, is asked to
\* remove_proxy_for_key(key).  The visitor drops its entry here and the
\* registry's entry in the poller's next step.
RemoveProxyForKey(service_id, key) ==
    LET v == ClosedProxyVisitor(service_proxy_visitors, service_id)
        vid == VisitorId(Unwrap(v))
        found == Visitor_has_proxy_key(proxy_conns[vid], key)
    IN
    IF IsSome(v)
    THEN /\ calls' = CallsOn({vid}, << Call("remove_proxy_for_key", key) >>)
         /\ proxy_conns' = [proxy_conns EXCEPT
                                ![vid] = Visitor_remove_local(proxy_conns[vid], key)]
         /\ poller' = IF found THEN [poller EXCEPT !.pc = "registry"] ELSE IdlePoller
         /\ tunnel' = IF found THEN tunnel ELSE [tunnel EXCEPT ![key] = "reaped"]
    ELSE /\ calls' = NoCalls
         /\ poller' = IdlePoller
         /\ tunnel' = [tunnel EXCEPT ![key] = "reaped"]
         /\ UNCHANGED proxy_conns

\* poll_proxy_events, `service_mgr.lock().unwrap()`, and the first statement
\* of on_closed_proxy(proxy_key): the service id of the key is read from the
\* registry, whose mutex is taken for this statement only
GatewayServiceMgr_on_closed_proxy_lookup ==
    /\ side = "gateway" /\ ~panicked
    /\ poller.pc = "process"
    /\ poller' = [poller EXCEPT
                      !.pc = "resolved",
                      !.service_id = ResolveServiceId(services_by_proxy_key, poller.key)]
    /\ result' = NoResult
    /\ calls' = NoCalls
    /\ UNCHANGED << connVars, udpVars, dataVars, side, gateway_service_ports, overflow_checks, panicked, visitor_fails,
                    shared_service_port, next_service_port, last_service_port,
                    service_ports, service_addrs, service_proxies,
                    service_proxy_visitors, service_proxy_threads,
                    services_by_proxy_key, proxy_conns, shutdown_requested,
                    proxy_events, tunnel >>

\* poll_proxy_events, `service_mgr.lock().unwrap()` on a manager mutex that a
\* panic of startup has poisoned: unwrap panics and the poller thread is gone
GatewayServiceMgr_poll_proxy_events_poisoned ==
    /\ side = "gateway" /\ panicked
    /\ poller.pc = "process"
    /\ poller' = [IdlePoller EXCEPT !.pc = "crashed"]
    /\ result' = NoResult
    /\ calls' = NoCalls
    /\ UNCHANGED << connVars, udpVars, dataVars, side, gateway_service_ports, overflow_checks, panicked, visitor_fails,
                    shared_service_port, next_service_port, last_service_port,
                    service_ports, service_addrs, service_proxies,
                    service_proxy_visitors, service_proxy_threads,
                    services_by_proxy_key, proxy_conns, shutdown_requested,
                    proxy_events, tunnel >>

\* on_closed_proxy(proxy_key), its second statement: the visitor of the
\* service id, if there is one, removes the proxy key; the manager is locked
GatewayServiceMgr_on_closed_proxy ==
    /\ side = "gateway"
    /\ poller.pc = "resolved"
    /\ RemoveProxyForKey(poller.service_id, poller.key)
    /\ result' = [op |-> "on_closed_proxy", key |-> poller.key,
                  holding |-> MgrCallHolding]
    /\ UNCHANGED << connVars, udpVars, dataVars, side, gateway_service_ports, overflow_checks, panicked, visitor_fails,
                    shared_service_port, next_service_port, last_service_port,
                    service_ports, service_addrs, service_proxies,
                    service_proxy_visitors, service_proxy_threads,
                    services_by_proxy_key, shutdown_requested, proxy_events >>

\* poll_proxy_events: proxy_events_receiver.recv() returned Closed(proxy_key)
GatewayServiceMgr_poll_proxy_events ==
    /\ side = "gateway"
    /\ poller.pc = "recv"
    /\ proxy_events # << >>
    /\ Head(proxy_events).type = "Closed"
    /\ poller' = [pc |-> "process", key |-> Head(proxy_events).key,
                  service_id |-> U64_MAX]
    /\ proxy_events' = Tail(proxy_events)
    /\ result' = NoResult
    /\ calls' = NoCalls
    /\ UNCHANGED << connVars, udpVars, dataVars, side, gateway_service_ports, overflow_checks, panicked, visitor_fails,
                    shared_service_port, next_service_port, last_service_port,
                    service_ports, service_addrs, service_proxies,
                    service_proxy_visitors, service_proxy_threads,
                    services_by_proxy_key, proxy_conns, shutdown_requested,
                    tunnel >>

\* remove_proxy_for_key, second half: the registry's entry goes after the
\* visitor's own; the Closed event is then fully processed
Visitor_remove_registry ==
    /\ poller.pc = "registry"
    /\ services_by_proxy_key' = MapRemove(services_by_proxy_key, poller.key)
    /\ tunnel' = [tunnel EXCEPT ![poller.key] = "reaped"]
    /\ poller' = IdlePoller
    /\ UNCHANGED << connVars, udpVars, dataVars, side, gateway_service_ports, overflow_checks, panicked, visitor_fails,
                    shared_service_port, next_service_port, last_service_port,
                    service_ports, service_addrs, service_proxies,
                    service_proxy_visitors, service_proxy_threads, proxy_conns,
                    shutdown_requested, proxy_events, result, calls >>

\* the accept path of the visitor of service s: a new tunnel for user u gets
\* proxy key k, which is entered in the registry and in the visitor's set
Visitor_accept(s, u, k) ==
    /\ side \in {"gateway", "client"}
    /\ s \in DOMAIN service_proxy_visitors
    /\ tunnel[k] \in {"idle", "reaped"}
    /\ services_by_proxy_key' = MapInsert(services_by_proxy_key, k, s)
    /\ LET vid == VisitorId(service_proxy_visitors[s])
       IN  proxy_conns' = [proxy_conns EXCEPT ![vid] = @ \cup { << u, k >> }]
    /\ tunnel' = [tunnel EXCEPT ![k] = "open"]
    /\ result' = NoResult
    /\ calls' = NoCalls
    /\ UNCHANGED << connVars, udpVars, dataVars, side, gateway_service_ports, overflow_checks, panicked, visitor_fails,
                    shared_service_port, next_service_port, last_service_port,
                    service_ports, service_addrs, service_proxies,
                    service_proxy_visitors, service_proxy_threads,
                    shutdown_requested, proxy_events, poller >>

\* the tunnel of proxy key k ends (EOF, error or an executor Close): its pump
\* publishes ProxyEvent::Closed(k), once
Tunnel_closed(k) ==
    /\ tunnel[k] = "open"
    /\ tunnel' = [tunnel EXCEPT ![k] = "closed"]
    /\ proxy_events' = Append(proxy_events, [type |-> "Closed", key |-> k])
    /\ result' = NoResult
    /\ calls' = NoCalls
    /\ UNCHANGED << connVars, udpVars, dataVars, side, gateway_service_ports, overflow_checks, panicked, visitor_fails,
                    shared_service_port, next_service_port, last_service_port,
                    service_ports, service_addrs, service_proxies,
                    service_proxy_visitors, service_proxy_threads,
                    services_by_proxy_key, proxy_conns, shutdown_requested,
                    poller >>

(***************************************************************************)
(* ServiceMgr (client)                                                     *)
(***************************************************************************)

\* faulty variant: the started check never finds the service
ServiceMgr_is_started_never(addrs, service_id) == FALSE

\* startup, "service proxy already started": service_addrs has the service id
ServiceMgr_is_started(addrs, service_id) == service_id \in DOMAIN addrs

\* startup(service, proxy_addrs); failing: the constructor that fails
\* ("visitor": Tcp/UdpClientProxyServerVisitor::new, "proxy":
\* UdpClientProxy::new, "none")
ServiceMgr_startup(service, proxy_addrs, failing) ==
    LET id == service.service_id
        call == [op |-> "startup", service_id |-> id, proxy_addrs |-> proxy_addrs]
    IN
    /\ side = "client" /\ MgrLockFree
    /\ failing \in (IF service.transport = "UDP"
                    THEN {"none", "visitor", "proxy"} ELSE {"none", "visitor"})
    /\ calls' = NoCalls
    /\ IF ServiceMgr_is_started(service_addrs, id)
       THEN \* service proxy already started
            /\ result' = call @@ [ret |-> Ok(service_addrs[id])]
            /\ UNCHANGED << service_addrs, service_proxies,
                            service_proxy_visitors, service_proxy_threads >>
       ELSE IF failing # "none"
       THEN /\ result' = call @@ [ret |-> Err(failing)]
            /\ UNCHANGED << service_addrs, service_proxies,
                            service_proxy_visitors, service_proxy_threads >>
       ELSE /\ result' = call @@ [ret |-> Ok(proxy_addrs)]
            /\ service_addrs' = MapInsert(service_addrs, id, proxy_addrs)
            /\ service_proxies' = MapInsert(service_proxies, id,
                   [transport |-> service.transport, port |-> proxy_addrs[1]])
            /\ service_proxy_visitors' = RegisterVisitor(service_proxy_visitors, id,
                   [service_id |-> id, port |-> proxy_addrs[1]])
            /\ service_proxy_threads' =
                   MapInsert(service_proxy_threads, id, "running")
    /\ UNCHANGED << connVars, udpVars, dataVars, side, gateway_service_ports, overflow_checks, panicked, visitor_fails,
                    shared_service_port, next_service_port, last_service_port,
                    service_ports, services_by_proxy_key, proxy_conns,
                    shutdown_requested, proxy_events, poller, tunnel >>

\* what shutdown and _shutdown_for_service do on one visitor, in this order
ClientShutdownCalls ==
    << Call("set_shutdown_requested", TRUE), Call("shutdown_connections", None) >>

\* shutdown(); failing: the visitors whose shutdown_connections returns Err
ServiceMgr_shutdown(failing) ==
    LET selected == DOMAIN service_proxy_visitors
        visited == ShutdownVisited(selected, failing)
        targets == { VisitorId(service_proxy_visitors[s]) : s \in visited }
    IN
    /\ side = "client" /\ MgrLockFree
    /\ failing \subseteq selected
    /\ calls' = CallsOn(targets, ClientShutdownCalls)
    /\ shutdown_requested' =
           [s \in ServiceIds |-> IF s \in targets THEN TRUE ELSE shutdown_requested[s]]
    /\ result' = [op |-> "shutdown", failing |-> failing,
                  holding |-> MgrCallHolding,
                  ret |-> ShutdownResult(visited \cap failing)]
    /\ UNCHANGED << connVars, udpVars, dataVars, side, gateway_service_ports, overflow_checks, panicked, visitor_fails,
                    shared_service_port, next_service_port, last_service_port,
                    service_ports, service_addrs, service_proxies,
                    service_proxy_visitors, service_proxy_threads,
                    services_by_proxy_key, proxy_conns, proxy_events, poller,
                    tunnel >>

\* _shutdown_for_service(service_id); fails: the visitor's
\* shutdown_connections returns Err
ServiceMgr_shutdown_for_service(service_id, fails) ==
    LET v == MapGet(service_proxy_visitors, service_id)
        vid == VisitorId(Unwrap(v))
    IN
    /\ side = "client" /\ MgrLockFree
    /\ IsSome(v) \/ ~fails
    /\ calls' = IF IsSome(v) THEN CallsOn({vid}, ClientShutdownCalls) ELSE NoCalls
    /\ shutdown_requested' =
           IF IsSome(v) THEN [shutdown_requested EXCEPT ![vid] = TRUE]
           ELSE shutdown_requested
    /\ result' = [op |-> "_shutdown_for_service", service_id |-> service_id,
                  holding |-> MgrCallHolding,
                  ret |-> IF fails THEN Err([kind |-> "shutdown", failed |-> {service_id}])
                          ELSE Ok(<< >>)]
    /\ UNCHANGED << connVars, udpVars, dataVars, side, gateway_service_ports, overflow_checks, panicked, visitor_fails,
                    shared_service_port, next_service_port, last_service_port,
                    service_ports, service_addrs, service_proxies,
                    service_proxy_visitors, service_proxy_threads,
                    services_by_proxy_key, proxy_conns, proxy_events, poller,
                    tunnel >>

\* poll_proxy_events: proxy_events_receiver.recv() returned Closed(proxy_key)
ServiceMgr_poll_proxy_events_recv ==
    /\ side = "client"
    /\ poller.pc = "recv"
    /\ proxy_events # << >>
    /\ Head(proxy_events).type = "Closed"
    /\ poller' = [pc |-> "lookup", key |-> Head(proxy_events).key,
                  service_id |-> U64_MAX]
    /\ proxy_events' = Tail(proxy_events)
    /\ result' = NoResult
    /\ calls' = NoCalls
    /\ UNCHANGED << connVars, udpVars, dataVars, side, gateway_service_ports, overflow_checks, panicked, visitor_fails,
                    shared_service_port, next_service_port, last_service_port,
                    service_ports, service_addrs, service_proxies,
                    service_proxy_visitors, service_proxy_threads,
                    services_by_proxy_key, proxy_conns, shutdown_requested,
                    tunnel >>

\* poll_proxy_events: the service id of the key is read from the registry
\* (manager and registry locked for this statement only)
ServiceMgr_poll_proxy_events_lookup ==
    /\ side = "client"
    /\ poller.pc = "lookup"
    /\ poller' = [poller EXCEPT
                      !.pc = "process",
                      !.service_id = ResolveServiceId(services_by_proxy_key, poller.key)]
    /\ result' = NoResult
    /\ calls' = NoCalls
    /\ UNCHANGED << connVars, udpVars, dataVars, side, gateway_service_ports, overflow_checks, panicked, visitor_fails,
                    shared_service_port, next_service_port, last_service_port,
                    service_ports, service_addrs, service_proxies,
                    service_proxy_visitors, service_proxy_threads,
                    services_by_proxy_key, proxy_conns, shutdown_requested,
                    proxy_events, tunnel >>

\* poll_proxy_events: the visitor of the service id removes the proxy key
ServiceMgr_poll_proxy_events_remove ==
    /\ side = "client"
    /\ poller.pc = "process"
    /\ RemoveProxyForKey(poller.service_id, poller.key)
    /\ result' = [op |-> "on_closed_proxy", key |-> poller.key,
                  holding |-> MgrCallHolding]
    /\ UNCHANGED << connVars, udpVars, dataVars, side, gateway_service_ports, overflow_checks, panicked, visitor_fails,
                    shared_service_port, next_service_port, last_service_port,
                    service_ports, service_addrs, service_proxies,
                    service_proxy_visitors, service_proxy_threads,
                    services_by_proxy_key, shutdown_requested, proxy_events >>

\* poll_proxy_events (gateway): recv returned Message(..): `unimplemented!()`
\* panics and the poller thread is gone
GatewayServiceMgr_poll_proxy_events_message ==
    /\ side = "gateway"
    /\ poller.pc = "recv"
    /\ proxy_events # << >>
    /\ Head(proxy_events).type = "Message"
    /\ poller' = [IdlePoller EXCEPT !.pc = "crashed"]
    /\ proxy_events' = Tail(proxy_events)
    /\ result' = NoResult
    /\ calls' = NoCalls
    /\ UNCHANGED << connVars, udpVars, dataVars, side, gateway_service_ports, overflow_checks, panicked, visitor_fails,
                    shared_service_port, next_service_port, last_service_port,
                    service_ports, service_addrs, service_proxies,
                    service_proxy_visitors, service_proxy_threads,
                    services_by_proxy_key, proxy_conns, shutdown_requested,
                    tunnel >>

\* poll_proxy_events (client): an event that is not Closed is dropped
ServiceMgr_poll_proxy_events_message ==
    /\ side = "client"
    /\ poller.pc = "recv"
    /\ proxy_events # << >>
    /\ Head(proxy_events).type = "Message"
    /\ proxy_events' = Tail(proxy_events)
    /\ result' = NoResult
    /\ calls' = NoCalls
    /\ UNCHANGED << connVars, udpVars, dataVars, side, gateway_service_ports, overflow_checks, panicked, visitor_fails,
                    shared_service_port, next_service_port, last_service_port,
                    service_ports, service_addrs, service_proxies,
                    service_proxy_visitors, service_proxy_threads,
                    services_by_proxy_key, proxy_conns, shutdown_requested,
                    poller, tunnel >>

\* the Message events waiting on the proxy event channel
MessagesQueued ==
    Cardinality({ i \in 1..Len(proxy_events) : proxy_events[i].type = "Message" })

\* a holder of a clone of proxy_events_sender publishes
\* ProxyEvent::Message for the tunnel of proxy key k
Proxy_message(k) ==
    /\ tunnel[k] = "open"
    /\ MessagesQueued < MaxMessages
    /\ proxy_events' = Append(proxy_events, [type |-> "Message", key |-> k])
    /\ result' = NoResult
    /\ calls' = NoCalls
    /\ UNCHANGED << connVars, udpVars, dataVars, side, gateway_service_ports, overflow_checks, panicked, visitor_fails,
                    shared_service_port, next_service_port, last_service_port,
                    service_ports, service_addrs, service_proxies,
                    service_proxy_visitors, service_proxy_threads,
                    services_by_proxy_key, proxy_conns, shutdown_requested,
                    poller, tunnel >>

\* a Closed event arrives for a proxy key that has no tunnel (any more): a
\* second Closed of a tunnel that is already removed, or a key never accepted
Stale_closed(k) ==
    /\ side \in {"gateway", "client"}
    /\ tunnel[k] \in {"idle", "reaped"}
    /\ \A i \in 1..Len(proxy_events) : proxy_events[i].key # k
    /\ ~(poller.pc # "recv" /\ poller.key = k)
    /\ proxy_events' = Append(proxy_events, [type |-> "Closed", key |-> k])
    /\ result' = NoResult
    /\ calls' = NoCalls
    /\ UNCHANGED << connVars, udpVars, dataVars, side, gateway_service_ports, overflow_checks, panicked, visitor_fails,
                    shared_service_port, next_service_port, last_service_port,
                    service_ports, service_addrs, service_proxies,
                    service_proxy_visitors, service_proxy_threads,
                    services_by_proxy_key, proxy_conns, shutdown_requested,
                    poller, tunnel >>

\* no repository is at hand
\* the mutexes of a manager process and the threads that take them: the
\* manager's, the registry's (services_by_proxy_key), two visitors'
VisitorLocks == {"visitor_a", "visitor_b"}
Locks == {"manager", "registry"} \cup VisitorLocks
Threads == {"poller", "control", "listener"}

\* every lock free, no thread inside a call
NoLocks ==
    /\ lock_owner = [l \in Locks |-> "none"]
    /\ thread_ops = [t \in Threads |-> << >>]

\* parse_gateway_service_ports has not been called
NoPortsArg ==
    /\ ports_arg = << >>
    /\ ports_parsed = [kind |-> "none"]

NoData ==
    /\ repo_kind = "none"
    /\ repo_data = << >>
    /\ repo_last = [op |-> "none"]
    /\ alpn_protocols = << >>
    /\ tls_alpn = << >>
    /\ handshakes = 0
    /\ asn_attr = [tag |-> "none"]
    /\ asn_result = [kind |-> "none"]
    /\ NoLocks
    /\ NoPortsArg

\* no UDP server runs
NoServer ==
    /\ server_pc = "none"
    /\ server_socket = FALSE
    /\ polling = FALSE
    /\ closing = FALSE
    /\ server_closed = FALSE
    /\ polling_error = FALSE
    /\ shutdown_flag = FALSE
    /\ requested_at = "never"
    /\ polls_after_request = 0
    /\ delivered_after_request = 0
    /\ server_last = [op |-> "none"]
    /\ datagrams = 0
    /\ accepted = NotAccepted

\* no connection is polled
NoConnection ==
    /\ conn_pc = "none"
    /\ closed = FALSE
    /\ event_channel = << >>
    /\ sends_left = 0
    /\ stream_shutdowns = 0
    /\ closed_sent = 0
    /\ on_shutdown_calls = 0
    /\ closing_handled = 0
    /\ written = << >>
    /\ io = NoIO
    /\ poll_cycle = NewCycle

(***************************************************************************)
(* The service manager's specification                                     *)
(***************************************************************************)

\* the users of a tunnel: the gateway's visitors know them, the client's do not
TunnelUsers == IF side = "gateway" THEN UserIds ELSE {0}

MgrInit ==
    /\ side \in {"gateway", "client"}
    /\ \E ports \in PortRanges :
          LET new == GatewayServiceMgr_new(ports, GATEWAY_SHARED_PORT)
          IN  /\ side = "client" => ports = None
              /\ gateway_service_ports = ports
              /\ shared_service_port = new.shared_service_port
              /\ next_service_port = new.next_service_port
              /\ last_service_port = new.last_service_port
    /\ overflow_checks \in BOOLEAN
    /\ side = "client" => overflow_checks
    /\ panicked = FALSE
    /\ visitor_fails = 0
    /\ service_ports = EmptyMap
    /\ service_addrs = EmptyMap
    /\ service_proxies = EmptyMap
    /\ service_proxy_visitors = EmptyMap
    /\ service_proxy_threads = EmptyMap
    /\ services_by_proxy_key = EmptyMap
    /\ proxy_conns = [s \in ServiceIds |-> {}]
    /\ shutdown_requested = [s \in ServiceIds |-> FALSE]
    /\ proxy_events = << >>
    /\ poller = IdlePoller
    /\ tunnel = [k \in ProxyKeys |-> "idle"]
    /\ result = NoResult
    /\ calls = NoCalls
    /\ NoConnection
    /\ NoServer
    /\ NoData

\* the control-plane calls: startup and shutdown, on either side
StartupNext ==
    \/ \E service \in Services, visitor_ok \in BOOLEAN :
           GatewayServiceMgr_startup(service, visitor_ok)
    \/ \E service \in Services, proxy_addrs \in ProxyAddrsSet,
          failing \in {"none", "visitor", "proxy"} :
           ServiceMgr_startup(service, proxy_addrs, failing)

ShutdownNext ==
    \/ \E user_id \in {None} \cup { Some(u) : u \in UserIds },
          service_id \in {None} \cup { Some(s) : s \in ServiceIds },
          failing \in SUBSET ServiceIds :
           GatewayServiceMgr_shutdown_connections(user_id, service_id, failing)
    \/ \E failing \in SUBSET ServiceIds : ServiceMgr_shutdown(failing)
    \/ \E service_id \in ServiceIds, fails \in BOOLEAN :
           ServiceMgr_shutdown_for_service(service_id, fails)

\* the event bus: tunnels open and close, the poller reacts to Closed events
BusNext ==
    \/ GatewayServiceMgr_poll_proxy_events
    \/ GatewayServiceMgr_on_closed_proxy_lookup
    \/ GatewayServiceMgr_on_closed_proxy
    \/ ServiceMgr_poll_proxy_events_recv
    \/ ServiceMgr_poll_proxy_events_lookup
    \/ ServiceMgr_poll_proxy_events_remove
    \/ Visitor_remove_registry
    \/ \E s \in ServiceIds, k \in ProxyKeys : \E u \in TunnelUsers :
           Visitor_accept(s, u, k)
    \/ \E k \in ProxyKeys : Tunnel_closed(k)

MgrNext == StartupNext \/ ShutdownNext
MgrBusNext == StartupNext \/ BusNext

\* SpecMgr: the manager under its control-plane calls.  SpecBus: the manager
\* under startups and the traffic of the event bus.  The calls left out of
\* either write none of the state the other's actions read: shutdown calls
\* write result, calls and shutdown_requested only.
SpecMgr == MgrInit /\ [][MgrNext]_vars
\* the bus reads no port: the gateway of SpecBus serves on the shared port
BusInit ==
    /\ MgrInit
    /\ gateway_service_ports = None
    /\ overflow_checks
SpecBus == BusInit /\ [][MgrBusNext]_vars

\* SpecPoll: the event poller under every kind of event and every manager.
\* recv cannot fail while the poller runs: the manager the poller holds owns
\* proxy_events_sender, so the channel always has a sender.
PollNext ==
    \/ GatewayServiceMgr_poll_proxy_events_message
    \/ GatewayServiceMgr_poll_proxy_events_poisoned
    \/ ServiceMgr_poll_proxy_events_message
    \/ \E k \in ProxyKeys : Proxy_message(k)
    \/ \E k \in ProxyKeys : Stale_closed(k)
SpecPoll == MgrInit /\ [][MgrBusNext \/ PollNext]_vars

\* the users a caller may ask about: those with tunnels and one without any
QueryUsers == UserIds \cup {100 + MaxUsers}

\* SpecQuery: the gateway asked for its proxies while tunnels come and go
QueryNext ==
    \E user_id \in QueryUsers, service_id \in ServiceIds :
        GatewayServiceMgr_has_proxy_for_user_and_service(user_id, service_id)
SpecQuery == BusInit /\ [][MgrBusNext \/ QueryNext]_vars

\* SpecOps: the manager under startups, shutdowns and the event bus together
SpecOps == BusInit /\ [][StartupNext \/ ShutdownNext \/ BusNext]_vars

(***************************************************************************)
(* Connection (crates/common/src/net/tcp_server/conn_std.rs)               *)
(***************************************************************************)

\* ConnectionEvent
ConnectionEvent_Closing == [type |-> "Closing", data |-> << >>]
ConnectionEvent_Closed == [type |-> "Closed", data |-> << >>]
ConnectionEvent_Write(data) == [type |-> "Write", data |-> data]

\* One result of stream_reader.read(&mut buff_chunk): n bytes (Ok(n)) or an
\* error kind
StreamData(n) == [kind |-> "data", n |-> n]
StreamError(kind) == [kind |-> kind, n |-> 0]
\* k reads that fill the chunk buffer
FullChunks(k) == [i \in 1..k |-> StreamData(READ_BLOCK_SIZE)]
\* the results that end the loop of read_tcp_stream
ReadEnds ==
    { StreamData(n) : n \in {0, 1, READ_BLOCK_SIZE - 1} }
        \cup { StreamError(kind) : kind \in {"would_block", "eof", "error"} }
\* what the stream can give to one read_tcp_stream: the results of its
\* successive reads, up to the one that ends the loop
ReadOutcomes == { FullChunks(k) \o << e >> : k \in 0..MaxChunks, e \in ReadEnds }

\* the stream's bytes are numbered by their position: the n bytes after
\* position offset
StreamBytes(offset, n) == [i \in 1..n |-> offset + i]

\* a counter that saturates
Inc(n) == IF n < CountCap THEN n + 1 ELSE n

\* what stream_writer.write_all() can come to: Ok, or an error (WouldBlock,
\* UnexpectedEof, another one) before the stream took any byte of the buffer
\* or, "_partial", after it took the first byte
WriteOutcomes ==
    {"ok", "would_block", "would_block_partial", "eof", "eof_partial",
     "error", "error_partial"}

\* the buffer of the n-th event sent: bytes numbered in the order of sending
WriteBuffer(n) == [i \in 1..BufLen |-> BufLen * (n - 1) + i]

\* no manager runs beside the connection
NoManager ==
    /\ side = "none"
    /\ gateway_service_ports = None
    /\ overflow_checks = TRUE
    /\ panicked = FALSE
    /\ visitor_fails = 0
    /\ shared_service_port = None
    /\ next_service_port = DEFAULT_SERVICE_PORT_START
    /\ last_service_port = DEFAULT_SERVICE_PORT_END
    /\ service_ports = EmptyMap
    /\ service_addrs = EmptyMap
    /\ service_proxies = EmptyMap
    /\ service_proxy_visitors = EmptyMap
    /\ service_proxy_threads = EmptyMap
    /\ services_by_proxy_key = EmptyMap
    /\ proxy_conns = [s \in ServiceIds |-> {}]
    /\ shutdown_requested = [s \in ServiceIds |-> FALSE]
    /\ proxy_events = << >>
    /\ poller = IdlePoller
    /\ tunnel = [k \in ProxyKeys |-> "idle"]
    /\ result = NoResult
    /\ calls = NoCalls

\* faulty variant: the loop of read_tcp_stream ends after its first chunk
ReadChunkEnds_always(bytes_read) == TRUE

\* read_tcp_stream: `if bytes_read < READ_BLOCK_SIZE { ...; break; }`
ReadChunkEnds(bytes_read) == bytes_read < READ_BLOCK_SIZE

\* read_tcp_stream's loop from the i-th read on; offset: the stream position,
\* buffer: what is collected so far
RECURSIVE ReadLoop(_, _, _, _)
ReadLoop(outcome, i, offset, buffer) ==
    LET r == outcome[i]
        chunk == StreamBytes(offset, r.n)
    IN  CASE r.kind = "data" ->
               IF ReadChunkEnds(r.n)
               THEN [ret |-> Ok(buffer \o chunk), sent |-> << >>]
               ELSE ReadLoop(outcome, i + 1, offset + r.n, buffer \o chunk)
          [] r.kind = "eof" ->
               [ret |-> Ok(buffer), sent |-> << ConnectionEvent_Closing >>]
          [] r.kind = "would_block" -> [ret |-> Ok(buffer), sent |-> << >>]
          [] OTHER -> [ret |-> Err("read"), sent |-> << >>]

\* read_tcp_stream: the buffer read and the events sent.  UnexpectedEof sends
\* Closing and ends the loop, WouldBlock ends the loop, another error is
\* returned; a chunk shorter than READ_BLOCK_SIZE (zero bytes too) is the last
Connection_read_tcp_stream(outcome) == ReadLoop(outcome, 1, 0, << >>)

\* faulty variant: read reports its error without asking for the close
ReadErrorEvents_none(error) == << >>

\* read: `if error.is_some() { send(Closing) ... }`
ReadErrorEvents(error) == IF error THEN << ConnectionEvent_Closing >> ELSE << >>

\* read: on_connection_read is called for a non-empty buffer (visit_ok: it
\* returns Ok); any error sends Closing and is returned.
\* first: the events read_tcp_stream sent, before the visitor is called;
\* last: the event read sends itself, after the visitor has returned;
\* sent: all the events of the call, in the order of sending
Connection_read(outcome, visit_ok) ==
    LET r == Connection_read_tcp_stream(outcome)
        visited == r.ret.ok /\ r.ret.val # << >>
        error == ~r.ret.ok \/ (visited /\ ~visit_ok)
    IN  [ret |-> IF ~r.ret.ok THEN r.ret
                 ELSE IF error THEN Err("on_connection_read") ELSE r.ret,
         visited |-> IF visited THEN << r.ret.val >> ELSE << >>,
         first |-> r.sent,
         last |-> ReadErrorEvents(error),
         sent |-> r.sent \o ReadErrorEvents(error)]

\* write_tcp_stream: UnexpectedEof sends Closing, WouldBlock sends the buffer
\* again as a Write event, another error is returned.  taken: the bytes
\* write_all handed to the stream, the whole buffer on Ok, and on a failure
\* nothing or, for a "_partial" outcome, the first byte
Connection_write_tcp_stream(buffer, outcome) ==
    LET prefix ==
            IF outcome \in {"would_block_partial", "eof_partial", "error_partial"}
                  /\ Len(buffer) >= 2
            THEN SubSeq(buffer, 1, 1) ELSE << >>
    IN  CASE outcome = "ok" ->
                 [ret |-> Ok(<< >>), sent |-> << >>, taken |-> buffer]
          [] outcome \in {"eof", "eof_partial"} ->
                 [ret |-> Ok(<< >>), sent |-> << ConnectionEvent_Closing >>,
                  taken |-> prefix]
          [] outcome \in {"would_block", "would_block_partial"} ->
                 [ret |-> Ok(<< >>), sent |-> << ConnectionEvent_Write(buffer) >>,
                  taken |-> prefix]
          [] OTHER -> [ret |-> Err("write"), sent |-> << >>, taken |-> prefix]

\* faulty variant: write reports its error without asking for the close
WriteErrorEvents_none(failed) == << >>

\* write: `if error.is_some() { send(Closing) ... }`
WriteErrorEvents(failed) == IF failed THEN << ConnectionEvent_Closing >> ELSE << >>

\* write: any error sends Closing and is returned
Connection_write(buffer, outcome) ==
    LET w == Connection_write_tcp_stream(buffer, outcome)
    IN  [ret |-> w.ret,
         sent |-> w.sent \o WriteErrorEvents(~w.ret.ok),
         taken |-> w.taken]

\* faulty variant: shutdown without its guard
ShutdownSkipped_never(is_closed) == FALSE

\* shutdown's guard: nothing is done on a closed connection
ShutdownSkipped(is_closed) == is_closed

\* shutdown; stream_ok: TcpStream::shutdown(Both) succeeds, on_shutdown_ok:
\* the visitor's on_shutdown returns Ok.  A failure of the stream's shutdown
\* is returned at once (`?`), before closed is set; otherwise shutdown returns
\* what on_shutdown returned.
\* gives what it returns, the new closed flag, the events sent and what was
\* done
Connection_shutdown(is_closed, stream_ok, on_shutdown_ok) ==
    IF ShutdownSkipped(is_closed)
    THEN [ret |-> Ok(<< >>), closed |-> is_closed, sent |-> << >>,
          stream_shutdown |-> FALSE, on_shutdown |-> FALSE]
    ELSE IF ~stream_ok
    THEN [ret |-> Err("shutdown"), closed |-> is_closed, sent |-> << >>,
          stream_shutdown |-> FALSE, on_shutdown |-> FALSE]
    ELSE [ret |-> IF on_shutdown_ok THEN Ok(<< >>) ELSE Err("on_shutdown"),
          closed |-> TRUE, sent |-> << ConnectionEvent_Closed >>,
          stream_shutdown |-> TRUE, on_shutdown |-> TRUE]

\* faulty variant: the receiver hands out the newest event
Channel_try_recv_newest(queue) ==
    [event |-> queue[Len(queue)], rest |-> SubSeq(queue, 1, Len(queue) - 1)]

\* event_channel.1.try_recv() on a queue that holds an event: the oldest
\* event, and what stays in the channel
Channel_try_recv(queue) == [event |-> Head(queue), rest |-> Tail(queue)]

\* The owner holds the connection (&mut self) and may call its methods when
\* poll_connection does not run: conn_pc is "returned" when poll_connection
\* has returned and the owner has called nothing since, "open" otherwise
OwnerHolds == conn_pc \in {"open", "returned"}

\* set_closed(closed): the field is written and nothing else is done
Connection_set_closed(value) ==
    /\ UNCHANGED << mgrVars, udpVars, dataVars >>
    /\ OwnerHolds
    /\ conn_pc' = "open"
    /\ closed' = value
    /\ io' = [op |-> "set_closed", value |-> value]
    /\ UNCHANGED << event_channel, sends_left, stream_shutdowns,
                    closed_sent, on_shutdown_calls, closing_handled, written,
                    poll_cycle >>

\* the owner calls poll_connection, for the first time or again
Connection_poll_connection ==
    /\ UNCHANGED << mgrVars, udpVars, dataVars >>
    /\ OwnerHolds
    /\ conn_pc' = "read"
    /\ poll_cycle' = NewCycle
    /\ UNCHANGED << closed, event_channel, sends_left, stream_shutdowns,
                    closed_sent, on_shutdown_calls, closing_handled, written, io >>

\* poll_connection, `self.read()` up to the return of read_tcp_stream, whose
\* events are sent.  With a non-empty buffer read calls out to
\* on_connection_read next, and the holders of a sender may send meanwhile;
\* otherwise read ends in this step, with the Closing of its error handling
Connection_poll_read(outcome) ==
    LET r == Connection_read(outcome, TRUE)
    IN
    /\ UNCHANGED << mgrVars, udpVars, dataVars >>
    /\ conn_pc = "read"
    /\ IF r.visited # << >>
       THEN /\ event_channel' = event_channel \o r.first
            /\ conn_pc' = "visit"
            /\ UNCHANGED poll_cycle
       ELSE /\ event_channel' = event_channel \o r.sent
            /\ conn_pc' = "cycle"
            /\ poll_cycle' =
                   [poll_cycle EXCEPT
                        !.read = IF poll_cycle.read # "none" THEN "again"
                                 ELSE IF r.ret.ok THEN "ok" ELSE "err"]
    /\ UNCHANGED << closed, sends_left, stream_shutdowns, closed_sent,
                    on_shutdown_calls, closing_handled, written, io >>

\* poll_connection, `self.read()` from the return of on_connection_read on
\* (visit_ok: it returned Ok): its error sends Closing and is returned
Connection_poll_visit(visit_ok) ==
    /\ UNCHANGED << mgrVars, udpVars, dataVars >>
    /\ conn_pc = "visit"
    /\ event_channel' = event_channel \o ReadErrorEvents(~visit_ok)
    /\ conn_pc' = "cycle"
    /\ poll_cycle' =
           [poll_cycle EXCEPT
                !.read = IF poll_cycle.read # "none" THEN "again"
                         ELSE IF visit_ok THEN "ok" ELSE "err"]
    /\ UNCHANGED << closed, sends_left, stream_shutdowns, closed_sent,
                    on_shutdown_calls, closing_handled, written, io >>

\* poll_connection, `self.visitor.on_polling_cycle()`
Connection_poll_cycle ==
    /\ UNCHANGED << mgrVars, udpVars, dataVars >>
    /\ conn_pc = "cycle"
    /\ conn_pc' = "events"
    /\ poll_cycle' = [poll_cycle EXCEPT !.on_polling_cycle = Inc(@)]
    /\ UNCHANGED << closed, event_channel, sends_left, stream_shutdowns,
                    closed_sent, on_shutdown_calls, closing_handled, written, io >>

\* poll_connection, one turn of the 'EVENTS loop: try_recv and its match.
\* What write and shutdown return is only logged, so that the result of the
\* visitor's on_shutdown changes nothing here
Connection_poll_event(write_outcome, stream_ok) ==
    /\ UNCHANGED << mgrVars, udpVars, dataVars >>
    /\ conn_pc = "events"
    /\ IF event_channel = << >>
       THEN \* Err(TryRecvError::Empty) => break
            /\ conn_pc' = "check"
            /\ poll_cycle' = [poll_cycle EXCEPT !.drained = "empty"]
            /\ UNCHANGED << closed, event_channel, stream_shutdowns, closed_sent,
                            on_shutdown_calls, closing_handled, written >>
       ELSE LET ev == Channel_try_recv(event_channel).event
                rest == Channel_try_recv(event_channel).rest
                w == Connection_write(ev.data, write_outcome)
                sd == Connection_shutdown(closed, stream_ok, TRUE)
            IN  CASE ev.type = "Write" ->
                       /\ write_outcome = "would_block_partial"
                             => Len(written) < MaxWritten
                       /\ event_channel' = rest \o w.sent
                       /\ written' = written \o w.taken
                       /\ conn_pc' = "events"
                       /\ UNCHANGED << closed, stream_shutdowns, closed_sent,
                                       on_shutdown_calls, closing_handled,
                                       poll_cycle >>
                  [] ev.type = "Closing" ->
                       /\ event_channel' = rest \o sd.sent
                       /\ closed' = sd.closed
                       /\ stream_shutdowns' =
                              IF sd.stream_shutdown THEN Inc(stream_shutdowns)
                              ELSE stream_shutdowns
                       /\ closed_sent' =
                              IF sd.sent # << >> THEN Inc(closed_sent) ELSE closed_sent
                       /\ on_shutdown_calls' =
                              IF sd.on_shutdown THEN Inc(on_shutdown_calls)
                              ELSE on_shutdown_calls
                       /\ closing_handled' = Inc(closing_handled)
                       /\ conn_pc' = "events"
                       /\ UNCHANGED << written, poll_cycle >>
                  [] OTHER -> \* Ok(ConnectionEvent::Closed) => break
                       /\ event_channel' = rest
                       /\ conn_pc' = "check"
                       /\ poll_cycle' = [poll_cycle EXCEPT !.drained = "closed"]
                       /\ UNCHANGED << closed, stream_shutdowns, closed_sent,
                                       on_shutdown_calls, closing_handled, written >>
    /\ UNCHANGED << sends_left, io >>

\* poll_connection, `if self.closed { break; }`, else the next cycle
Connection_poll_check ==
    /\ UNCHANGED << mgrVars, udpVars, dataVars >>
    /\ conn_pc = "check"
    /\ conn_pc' = IF closed THEN "returned" ELSE "read"
    /\ poll_cycle' = IF closed THEN poll_cycle ELSE NewCycle
    /\ UNCHANGED << closed, event_channel, sends_left, stream_shutdowns,
                    closed_sent, on_shutdown_calls, closing_handled, written, io >>

\* a holder of a clone of the event channel's sender (the visitor, the proxy
\* tasks) sends an event
Connection_send(ev) ==
    /\ UNCHANGED << mgrVars, udpVars, dataVars >>
    /\ conn_pc # "none"
    /\ sends_left > 0
    /\ sends_left' = sends_left - 1
    /\ event_channel' = Append(event_channel, ev)
    /\ UNCHANGED << conn_pc, closed, stream_shutdowns, closed_sent,
                    on_shutdown_calls, closing_handled, written, io, poll_cycle >>

\* Connection::new; other threads hold senders of its event channel
ConnInit ==
    /\ NoManager
    /\ NoServer
    /\ NoData
    /\ conn_pc = "open"
    /\ closed = FALSE
    /\ event_channel = << >>
    /\ sends_left = MaxSends
    /\ stream_shutdowns = 0
    /\ closed_sent = 0
    /\ on_shutdown_calls = 0
    /\ closing_handled = 0
    /\ written = << >>
    /\ io = NoIO
    /\ poll_cycle = NewCycle

ConnPoll ==
    \/ Connection_poll_connection
    \/ \E outcome \in ReadOutcomes : Connection_poll_read(outcome)
    \/ \E visit_ok \in BOOLEAN : Connection_poll_visit(visit_ok)
    \/ Connection_poll_cycle
    \/ \E write_outcome \in WriteOutcomes, stream_ok \in BOOLEAN :
           Connection_poll_event(write_outcome, stream_ok)
    \/ Connection_poll_check

ConnNext ==
    \/ ConnPoll
    \/ \E value \in BOOLEAN : Connection_set_closed(value)
    \/ \E ev \in { ConnectionEvent_Closing, ConnectionEvent_Closed,
                   ConnectionEvent_Write(WriteBuffer(MaxSends - sends_left + 1)) } :
           Connection_send(ev)

SpecConn == ConnInit /\ [][ConnNext]_vars

\* ---- read, write and shutdown called directly on a connection that is not
\* ---- polled; the holders of a sender send their events beside the calls.
\* ---- The event channel is unbounded: MaxQueued bounds the events it holds
\* ---- when a call begins

\* connection.read() up to the return of read_tcp_stream, whose events are
\* sent.  With a non-empty buffer read calls out to on_connection_read next
\* (conn_pc "call_visit"); otherwise read returns in this step
Connection_call_read(outcome) ==
    LET r == Connection_read(outcome, TRUE)
    IN
    /\ UNCHANGED << mgrVars, udpVars, dataVars >>
    /\ OwnerHolds
    /\ Len(event_channel) < MaxQueued
    /\ IF r.visited # << >>
       THEN /\ conn_pc' = "call_visit"
            /\ event_channel' = event_channel \o r.first
            /\ io' = [op |-> "read_tcp_stream", outcome |-> outcome,
                      sent |-> r.first]
       ELSE /\ conn_pc' = "open"
            /\ event_channel' = event_channel \o r.sent
            /\ io' = [op |-> "read", outcome |-> outcome, ret |-> r.ret,
                      visited |-> r.visited, sent |-> r.sent]
    /\ UNCHANGED << closed, sends_left, stream_shutdowns, closed_sent,
                    on_shutdown_calls, closing_handled, written, poll_cycle >>

\* connection.read() from the return of on_connection_read on (visit_ok: it
\* returned Ok): its error sends Closing and is returned
Connection_call_visit(visit_ok) ==
    LET r == Connection_read(io.outcome, visit_ok)
    IN
    /\ UNCHANGED << mgrVars, udpVars, dataVars >>
    /\ conn_pc = "call_visit"
    /\ conn_pc' = "open"
    /\ event_channel' = event_channel \o r.last
    /\ io' = [op |-> "read", outcome |-> io.outcome, visit_ok |-> visit_ok,
              ret |-> r.ret, visited |-> r.visited, sent |-> r.sent]
    /\ UNCHANGED << closed, sends_left, stream_shutdowns, closed_sent,
                    on_shutdown_calls, closing_handled, written, poll_cycle >>

\* connection.write(buffer)
Connection_call_write(buffer, outcome) ==
    LET w == Connection_write(buffer, outcome)
    IN
    /\ UNCHANGED << mgrVars, udpVars, dataVars >>
    /\ OwnerHolds
    /\ Len(event_channel) < MaxQueued
    /\ Len(written) + Len(w.taken) <= MaxWritten
    /\ conn_pc' = "open"
    /\ event_channel' = event_channel \o w.sent
    /\ written' = written \o w.taken
    /\ io' = [op |-> "write", buffer |-> buffer, outcome |-> outcome,
              ret |-> w.ret, sent |-> w.sent]
    /\ UNCHANGED << closed, sends_left, stream_shutdowns, closed_sent,
                    on_shutdown_calls, closing_handled, poll_cycle >>

\* connection.shutdown(); stream_ok: TcpStream::shutdown(Both) succeeds,
\* on_shutdown_ok: the visitor's on_shutdown returns Ok
Connection_call_shutdown(stream_ok, on_shutdown_ok) ==
    LET sd == Connection_shutdown(closed, stream_ok, on_shutdown_ok)
    IN
    /\ UNCHANGED << mgrVars, udpVars, dataVars >>
    /\ OwnerHolds
    /\ Len(event_channel) < MaxQueued
    /\ conn_pc' = "open"
    /\ event_channel' = event_channel \o sd.sent
    /\ closed' = sd.closed
    /\ stream_shutdowns' =
           IF sd.stream_shutdown THEN Inc(stream_shutdowns) ELSE stream_shutdowns
    /\ closed_sent' = IF sd.sent # << >> THEN Inc(closed_sent) ELSE closed_sent
    /\ on_shutdown_calls' =
           IF sd.on_shutdown THEN Inc(on_shutdown_calls) ELSE on_shutdown_calls
    /\ io' = [op |-> "shutdown", stream_ok |-> stream_ok,
              on_shutdown_ok |-> on_shutdown_ok, ret |-> sd.ret,
              sent |-> sd.sent]
    /\ UNCHANGED << sends_left, closing_handled, written, poll_cycle >>

\* Connection::new; the caller then uses read, write, shutdown and
\* set_closed itself, and other threads hold senders of the event channel
IOInit ==
    /\ NoManager
    /\ NoServer
    /\ NoData
    /\ conn_pc = "open"
    /\ closed = FALSE
    /\ event_channel = << >>
    /\ sends_left = MaxSends
    /\ stream_shutdowns = 0
    /\ closed_sent = 0
    /\ on_shutdown_calls = 0
    /\ closing_handled = 0
    /\ written = << >>
    /\ io = NoIO
    /\ poll_cycle = NewCycle

IONext ==
    \/ \E outcome \in ReadOutcomes : Connection_call_read(outcome)
    \/ \E visit_ok \in BOOLEAN : Connection_call_visit(visit_ok)
    \/ \E n \in 1..MaxSends, outcome \in WriteOutcomes :
           Connection_call_write(WriteBuffer(n), outcome)
    \/ \E stream_ok \in BOOLEAN, on_shutdown_ok \in BOOLEAN :
           Connection_call_shutdown(stream_ok, on_shutdown_ok)
    \/ \E value \in BOOLEAN : Connection_set_closed(value)
    \/ \E ev \in { ConnectionEvent_Closing, ConnectionEvent_Closed,
                   ConnectionEvent_Write(WriteBuffer(MaxSends - sends_left + 1)) } :
           Connection_send(ev)

SpecIO == IOInit /\ [][IONext]_vars

(***************************************************************************)
(* UDP Server (crates/common/src/net/udp_server/server_std.rs)             *)
(***************************************************************************)

\* what mio's poll gives in one iteration of the polling loop
PollOutcomes == {"would_block", "error", "ready"}

\* what recv_from gives in accept_message
RecvOutcomes == {"would_block", "error", "datagram"}

\* what the visitor's on_message_received returns: Ok, an error, or the
\* error AppError::WouldBlock
VisitOutcomes == {"ok", "error", "would_block"}

\* faulty variant: the visitor is called whatever recv_from gave
Server_accept_message_visit(recv_outcome, visit_outcome) ==
    [ret |-> IF visit_outcome = "ok" THEN Ok(<< >>)
             ELSE IF visit_outcome = "would_block" THEN Err("WouldBlock")
             ELSE Err("Visitor"),
     visited |-> TRUE]

\* Server::accept_message: recv_from's error returns at `?`, as
\* AppError::WouldBlock or as GenWithMsgAndErr; otherwise the result is that
\* of the visitor's on_message_received
Server_accept_message(recv_outcome, visit_outcome) ==
    IF recv_outcome = "would_block"
    THEN [ret |-> Err("WouldBlock"), visited |-> FALSE]
    ELSE IF recv_outcome = "error"
    THEN [ret |-> Err("GenWithMsgAndErr"), visited |-> FALSE]
    ELSE [ret |-> IF visit_outcome = "ok" THEN Ok(<< >>)
                  ELSE IF visit_outcome = "would_block" THEN Err("WouldBlock")
                  ELSE Err("Visitor"),
          visited |-> TRUE]

\* the loop's match on accept_message's error: AppError::WouldBlock => {},
\* any other error is logged
AcceptErrorLogged(ret) == ~ret.ok /\ ret.err # "WouldBlock"

ShutdownObserved_never(flag) == FALSE
ShutdownObserved_always(flag) == TRUE

\* the loop's test of the visitor's get_shutdown_requested()
ShutdownObserved(flag) == flag

\* the caller is inside an iteration of poll_new_messages' loop
InIteration == server_pc \in {"poll", "check"}

\* faulty variant: the socket is kept
Server_perform_shutdown_keep ==
    /\ closing' = TRUE
    /\ server_closed' = TRUE
    /\ polling' = FALSE
    /\ UNCHANGED server_socket

\* Server::perform_shutdown, as the values the four fields take
Server_perform_shutdown ==
    /\ closing' = TRUE
    /\ server_closed' = TRUE
    /\ polling' = FALSE
    /\ server_socket' = FALSE

\* Server::bind_listener; a failed bind or set_nonblocking returns before any
\* field is written; on_listening's result is the call's result
Server_bind_listener(bind_ok, listening_ok) ==
    /\ server_pc = "idle"
    /\ IF bind_ok
       THEN /\ server_socket' = TRUE
            /\ closing' = FALSE
            /\ server_closed' = FALSE
            /\ polling' = FALSE
            /\ server_last' = [op |-> "bind_listener", ok |-> listening_ok]
       ELSE /\ server_last' = [op |-> "bind_listener", ok |-> FALSE]
            /\ UNCHANGED << server_socket, closing, server_closed, polling >>
    /\ UNCHANGED << mgrVars, connVars, dataVars, datagrams, accepted, server_pc, polling_error, shutdown_flag,
                    requested_at, polls_after_request, delivered_after_request >>

\* Server::shutdown
Server_shutdown ==
    /\ server_pc = "idle"
    /\ IF ~polling
       THEN Server_perform_shutdown
       ELSE /\ polling' = FALSE
            /\ UNCHANGED << closing, server_closed, server_socket >>
    /\ server_last' = [op |-> "shutdown", ok |-> TRUE]
    /\ UNCHANGED << mgrVars, connVars, dataVars, datagrams, accepted, server_pc, polling_error, shutdown_flag,
                    requested_at, polls_after_request, delivered_after_request >>

\* Server::stop_poller
Server_stop_poller ==
    /\ server_pc = "idle"
    /\ polling' = FALSE
    /\ server_last' = [op |-> "stop_poller", ok |-> TRUE]
    /\ UNCHANGED << mgrVars, connVars, dataVars, datagrams, accepted, server_pc, server_socket, closing,
                    server_closed, polling_error, shutdown_flag, requested_at,
                    polls_after_request, delivered_after_request >>

\* Server::poll_new_messages up to the loop: the listening and polling tests,
\* the setup of the poller (socket clone, Poll::new, register), polling = true
Server_poll_new_messages(setup_ok) ==
    /\ server_pc = "idle"
    /\ IF ~server_socket \/ polling \/ ~setup_ok
       THEN /\ server_last' = [op |-> "poll_new_messages", ok |-> FALSE]
            /\ UNCHANGED << server_pc, polling, polling_error, requested_at,
                            polls_after_request, delivered_after_request >>
       ELSE /\ polling' = TRUE
            /\ polling_error' = FALSE
            /\ server_pc' = "poll"
            /\ server_last' = [op |-> "poll_new_messages", ok |-> TRUE]
            /\ requested_at' = IF shutdown_flag THEN "outside" ELSE "never"
            /\ polls_after_request' = 0
            /\ delivered_after_request' = 0
    /\ UNCHANGED << mgrVars, connVars, dataVars, datagrams, accepted, server_socket, closing, server_closed,
                    shutdown_flag >>

\* the first half of an iteration: poll.poll and, when it returns Ok,
\* accept_message, whose error is only logged
Server_poll_iteration(poll_outcome, recv_outcome, visit_outcome) ==
    /\ server_pc = "poll"
    /\ recv_outcome = "datagram" => datagrams < MaxDatagrams
    /\ server_pc' = "check"
    /\ datagrams' = IF poll_outcome = "ready" /\ recv_outcome = "datagram"
                    THEN datagrams + 1 ELSE datagrams
    /\ accepted' =
           IF poll_outcome = "ready"
           THEN LET a == Server_accept_message(recv_outcome, visit_outcome)
                IN  [called |-> TRUE, recv |-> recv_outcome, ret |-> a.ret,
                     visited |-> a.visited, logged |-> AcceptErrorLogged(a.ret)]
           ELSE NotAccepted
    /\ polling' = IF poll_outcome = "error" THEN FALSE ELSE polling
    /\ polling_error' = IF poll_outcome = "error" THEN TRUE ELSE polling_error
    /\ delivered_after_request' =
           IF /\ poll_outcome = "ready"
              /\ recv_outcome = "datagram"
              /\ requested_at = "iteration"
           THEN Inc(delivered_after_request)
           ELSE delivered_after_request
    /\ UNCHANGED << mgrVars, connVars, dataVars, server_socket, closing, server_closed,
                    shutdown_flag, requested_at, polls_after_request, server_last >>

\* the second half: the shutdown test and the loop's condition
Server_poll_check ==
    /\ server_pc = "check"
    /\ LET observed == ShutdownObserved(shutdown_flag)
           goes_on  == polling /\ ~observed
       IN /\ polling' = goes_on
          /\ closing' = (closing \/ observed)
          /\ server_pc' = IF goes_on THEN "poll" ELSE "after"
          /\ polls_after_request' =
                 IF goes_on /\ requested_at = "iteration"
                 THEN Inc(polls_after_request)
                 ELSE polls_after_request
    /\ UNCHANGED << mgrVars, connVars, dataVars, datagrams, accepted, server_socket, server_closed, polling_error,
                    shutdown_flag, requested_at, delivered_after_request, server_last >>

\* after the loop: perform_shutdown when closing, and the return of Ok
Server_poll_return ==
    /\ server_pc = "after"
    /\ server_pc' = "idle"
    /\ IF closing
       THEN Server_perform_shutdown
       ELSE UNCHANGED << closing, server_closed, polling, server_socket >>
    /\ server_last' = [op |-> "poll_new_messages", ok |-> TRUE]
    /\ UNCHANGED << mgrVars, connVars, dataVars, datagrams, accepted, polling_error, shutdown_flag, requested_at,
                    polls_after_request, delivered_after_request >>

\* the visitor's owner asks for the shutdown, from any thread
Visitor_request_shutdown ==
    /\ server_pc # "none"
    /\ ~shutdown_flag
    /\ shutdown_flag' = TRUE
    /\ requested_at' = IF InIteration THEN "iteration" ELSE "outside"
    /\ UNCHANGED << mgrVars, connVars, dataVars, datagrams, accepted, server_pc, server_socket, polling, closing,
                    server_closed, polling_error, polls_after_request,
                    delivered_after_request, server_last >>

\* Server::new
UdpInit ==
    /\ NoManager
    /\ NoConnection
    /\ NoData
    /\ server_pc = "idle"
    /\ server_socket = FALSE
    /\ polling = FALSE
    /\ closing = FALSE
    /\ server_closed = FALSE
    /\ polling_error = FALSE
    /\ shutdown_flag = FALSE
    /\ requested_at = "never"
    /\ polls_after_request = 0
    /\ delivered_after_request = 0
    /\ server_last = [op |-> "new", ok |-> TRUE]
    /\ datagrams = 0
    /\ accepted = NotAccepted

UdpNext ==
    \/ \E bind_ok \in BOOLEAN, listening_ok \in BOOLEAN :
           Server_bind_listener(bind_ok, listening_ok)
    \/ Server_shutdown
    \/ Server_stop_poller
    \/ \E setup_ok \in BOOLEAN : Server_poll_new_messages(setup_ok)
    \/ \E poll_outcome \in PollOutcomes, recv_outcome \in RecvOutcomes,
          visit_outcome \in VisitOutcomes :
           Server_poll_iteration(poll_outcome, recv_outcome, visit_outcome)
    \/ Server_poll_check
    \/ Server_poll_return
    \/ Visitor_request_shutdown

SpecUdp == UdpInit /\ [][UdpNext]_vars

(***************************************************************************)
(* In-memory repositories                                                  *)
(*   (crates/gateway/src/repository/service_repo/in_memory_repo.rs,        *)
(*    crates/gateway/src/repository/access_repo/in_memory_repo.rs)         *)
(***************************************************************************)

\* ServiceAccess {user_id, service_id}
ServiceAccesses == [user_id : UserIds, service_id : ServiceIds]

\* the records a repository stores, and the key put files a record under:
\* service.service_id, (access.user_id, access.service_id)
RepoRecords(kind) == IF kind = "service" THEN Services ELSE ServiceAccesses
RepoKey(kind, record) ==
    IF kind = "service" THEN record.service_id
    ELSE << record.user_id, record.service_id >>
RepoKeys(kind) == { RepoKey(kind, r) : r \in RepoRecords(kind) }

\* what connect_to_datasource finds at connect_spec: no readable file, a file
\* serde_json rejects, or the JSON array of records
JsonArrays(kind) == UNION { [1..n -> RepoRecords(kind)] : n \in 0..MaxRecords }
DataSources(kind) ==
    {[file |-> "unreadable"], [file |-> "invalid"]}
        \cup { [file |-> "array", records |-> a] : a \in JsonArrays(kind) }

\* put: data.insert(key, record.clone()), the previous record returned
Repo_put(record) ==
    LET key == RepoKey(repo_kind, record)
    IN  /\ repo_data' = MapInsert(repo_data, key, record)
        /\ repo_last' = [op |-> "put", key |-> key, record |-> record,
                         ret |-> Ok(MapGet(repo_data, key))]
        /\ UNCHANGED << mgrVars, connVars, udpVars, lockVars, parseVars, asnVars, repo_kind, alpn_protocols,
                        tls_alpn, handshakes >>

\* get: data.get(&key).cloned()
Repo_get(key) ==
    /\ repo_last' = [op |-> "get", key |-> key, ret |-> Ok(MapGet(repo_data, key))]
    /\ UNCHANGED << mgrVars, connVars, udpVars, lockVars, parseVars, asnVars, repo_kind, repo_data,
                    alpn_protocols, tls_alpn, handshakes >>

\* delete: data.remove(&key)
Repo_delete(key) ==
    /\ repo_data' = MapRemove(repo_data, key)
    /\ repo_last' = [op |-> "delete", key |-> key, ret |-> Ok(MapGet(repo_data, key))]
    /\ UNCHANGED << mgrVars, connVars, udpVars, lockVars, parseVars, asnVars, repo_kind, alpn_protocols,
                        tls_alpn, handshakes >>

\* faulty variant: the load stops after the first record
Repo_load_first(kind, data, records) ==
    IF records = << >> THEN data
    ELSE MapInsert(data, RepoKey(kind, Head(records)), Head(records))

\* the loop of connect_to_datasource: self.put(record.clone())? in array order
RECURSIVE Repo_load(_, _, _)
Repo_load(kind, data, records) ==
    IF records = << >> THEN data
    ELSE Repo_load(kind,
                   MapInsert(data, RepoKey(kind, Head(records)), Head(records)),
                   Tail(records))

\* connect_to_datasource: read_to_string and serde_json::from_str return
\* their error before anything is stored
Repo_connect_to_datasource(source) ==
    /\ repo_data' = IF source.file = "array"
                    THEN Repo_load(repo_kind, repo_data, source.records)
                    ELSE repo_data
    /\ repo_last' = [op |-> "connect_to_datasource", source |-> source,
                     ret |-> IF source.file = "array" THEN Ok(<< >>)
                             ELSE Err(source.file)]
    /\ UNCHANGED << mgrVars, connVars, udpVars, lockVars, parseVars, asnVars, repo_kind, alpn_protocols,
                        tls_alpn, handshakes >>

InMemServiceRepo_connect_to_datasource(source) ==
    repo_kind = "service" /\ Repo_connect_to_datasource(source)
InMemServiceRepo_put(service) == repo_kind = "service" /\ Repo_put(service)
InMemServiceRepo_get(service_id) == repo_kind = "service" /\ Repo_get(service_id)
InMemServiceRepo_delete(service_id) ==
    repo_kind = "service" /\ Repo_delete(service_id)

InMemAccessRepo_connect_to_datasource(source) ==
    repo_kind = "access" /\ Repo_connect_to_datasource(source)
InMemAccessRepo_put(access) == repo_kind = "access" /\ Repo_put(access)
InMemAccessRepo_get(user_id, service_id) ==
    repo_kind = "access" /\ Repo_get(<< user_id, service_id >>)
InMemAccessRepo_delete(user_id, service_id) ==
    repo_kind = "access" /\ Repo_delete(<< user_id, service_id >>)

\* InMemServiceRepo::new / InMemAccessRepo::new
RepoInit ==
    /\ NoManager
    /\ NoConnection
    /\ NoServer
    /\ repo_kind \in {"service", "access"}
    /\ repo_data = EmptyMap
    /\ repo_last = [op |-> "new"]
    /\ alpn_protocols = << >>
    /\ tls_alpn = << >>
    /\ handshakes = 0
    /\ asn_attr = [tag |-> "none"]
    /\ asn_result = [kind |-> "none"]
    /\ NoLocks
    /\ NoPortsArg

ServiceRepoNext ==
    \/ \E source \in DataSources("service") :
           InMemServiceRepo_connect_to_datasource(source)
    \/ \E service \in Services : InMemServiceRepo_put(service)
    \/ \E service_id \in ServiceIds : InMemServiceRepo_get(service_id)
    \/ \E service_id \in ServiceIds : InMemServiceRepo_delete(service_id)

RepoNext ==
    \/ ServiceRepoNext
    \/ \E source \in DataSources("access") :
           InMemAccessRepo_connect_to_datasource(source)
    \/ \E access \in ServiceAccesses : InMemAccessRepo_put(access)
    \/ \E user_id \in UserIds, service_id \in ServiceIds :
           InMemAccessRepo_get(user_id, service_id)
    \/ \E user_id \in UserIds, service_id \in ServiceIds :
           InMemAccessRepo_delete(user_id, service_id)

SpecRepo == RepoInit /\ [][RepoNext]_vars

(***************************************************************************)
(* The gateway's ALPN protocols (crates/gateway/src/config.rs)             *)
(***************************************************************************)

\* alpn::Protocol::ControlPlane and alpn::Protocol::create_service_protocol:
\* "T0CP", and "T0SRV" followed by the decimal service id
ControlPlaneProtocol == << "T0CP" >>
ServiceProtocol(service_id) == << "T0SRV", service_id >>

\* the elements of a Vec
Elements(seq) == { seq[i] : i \in 1..Len(seq) }

\* get_all: the stored services, in the order the HashMap iterates them
GetAllOrders(data) ==
    { order \in [1..Cardinality(DOMAIN data) -> DOMAIN data] :
          \A i, j \in DOMAIN order : order[i] = order[j] => i = j }

\* AppConfig::new, the ALPN part: T0CP, then one service protocol for every
\* service get_all returns
AppConfig_new ==
    /\ repo_kind = "service"
    /\ alpn_protocols = << >>
    /\ \E order \in GetAllOrders(repo_data) :
           alpn_protocols' =
               << ControlPlaneProtocol >>
                   \o [i \in DOMAIN order |-> ServiceProtocol(order[i])]
    /\ UNCHANGED << mgrVars, connVars, udpVars, lockVars, parseVars, asnVars, repo_kind, repo_data, repo_last,
                    tls_alpn, handshakes >>

\* a TLS handshake: TlsServerConfigBuilder::build makes the ServerConfig,
\* whose alpn_protocols are a clone of the builder's
TlsServerConfigBuilder_build ==
    /\ alpn_protocols # << >>
    /\ handshakes < CountCap
    /\ tls_alpn' = alpn_protocols
    /\ handshakes' = handshakes + 1
    /\ UNCHANGED << mgrVars, connVars, udpVars, lockVars, parseVars, asnVars, repo_kind, repo_data, repo_last,
                    alpn_protocols >>

\* the gateway starts with an empty service repository, loads it, builds its
\* configuration and serves handshakes while the repository is in use
AlpnInit ==
    /\ RepoInit
    /\ repo_kind = "service"

AlpnNext ==
    \/ ServiceRepoNext
    \/ AppConfig_new
    \/ TlsServerConfigBuilder_build

SpecAlpn == AlpnInit /\ [][AlpnNext]_vars

(***************************************************************************)
(* get_all_for_user of the access repository                               *)
(*   (crates/gateway/src/repository/access_repo/in_memory_repo.rs)         *)
(***************************************************************************)

\* the users whose access records are stored, and their records
AccessUsers == UserIds \cup {100 + MaxUsers}
UserAccesses == [user_id : AccessUsers, service_id : ServiceIds]

\* faulty variant: every entry passes the filter
AccessOfUser_any(key, user_id) == TRUE

\* .filter(|entry| entry.0 .0 == user_id)
AccessOfUser(key, user_id) == key[1] = user_id

\* get_all_for_user: the entries in the order the HashMap iterates them,
\* filtered by the key's user, their records cloned into a Vec
InMemAccessRepo_get_all_for_user(user_id) ==
    /\ repo_kind = "access"
    /\ \E order \in GetAllOrders(repo_data) :
           LET OfUser(key) == AccessOfUser(key, user_id)
               kept == SelectSeq(order, OfUser)
           IN  repo_last' = [op |-> "get_all_for_user", key |-> user_id,
                             ret |-> Ok([i \in DOMAIN kept |-> repo_data[kept[i]]])]
    /\ UNCHANGED << mgrVars, connVars, udpVars, lockVars, parseVars, asnVars, repo_kind, repo_data,
                    alpn_protocols, tls_alpn, handshakes >>

\* InMemAccessRepo::new
AccessInit ==
    /\ RepoInit
    /\ repo_kind = "access"

AccessNext ==
    \/ \E access \in UserAccesses : InMemAccessRepo_put(access)
    \/ \E access \in UserAccesses :
           InMemAccessRepo_delete(access.user_id, access.service_id)
    \/ \E user_id \in AccessUsers \cup {101 + MaxUsers} :
           InMemAccessRepo_get_all_for_user(user_id)

SpecAccess == AccessInit /\ [][AccessNext]_vars

(***************************************************************************)
(* The locks the manager's threads take                                    *)
(*   (crates/gateway/src/service/manager.rs,                               *)
(*    crates/client/src/service/manager.rs)                                *)
(***************************************************************************)

\* mutex.lock().unwrap() and the drop of its guard
Acquire(lock) == [op |-> "lock", lock |-> lock]
Release(lock) == [op |-> "unlock", lock |-> lock]

\* the visitor's remove_proxy_for_key: the registry's entry is removed under
\* the registry's lock
RemoveProxyForKeyOps == << Acquire("registry"), Release("registry") >>

\* proxy_visitor.lock().unwrap().remove_proxy_for_key(..) when a visitor was
\* found for the key ("none": no visitor)
RemoveVisitOps(found) ==
    IF found = "none" THEN << >>
    ELSE << Acquire(found) >> \o RemoveProxyForKeyOps \o << Release(found) >>

\* gateway, a Closed event: service_mgr.lock().unwrap().on_closed_proxy(key),
\* in which get_service_id_by_proxy_key locks the registry for its statement
GatewayPollerOps(found) ==
    << Acquire("manager"), Acquire("registry"), Release("registry") >>
        \o RemoveVisitOps(found)
        \o << Release("manager") >>

\* faulty variant: the guard of the first statement lives on to the second
ClientPollerOps_nested(found) ==
    << Acquire("manager"), Acquire("registry"), Release("registry"),
       Acquire("manager") >>
        \o RemoveVisitOps(found)
        \o << Release("manager") >>

\* client, a Closed event: the statement that reads the service id locks
\* manager and registry and drops both guards at its end; the `if let` locks
\* the manager again and keeps it over the visitor's call
ClientPollerOps(found) ==
    << Acquire("manager"), Acquire("registry"), Release("registry"),
       Release("manager"), Acquire("manager") >>
        \o RemoveVisitOps(found)
        \o << Release("manager") >>

\* startup: called on the locked manager; it locks nothing else
StartupOps == << Acquire("manager"), Release("manager") >>

\* shutdown, shutdown_connections, _shutdown_for_service and
\* has_proxy_for_user_and_service: called on the locked manager; each visitor
\* visited is locked for its calls, one after the other
RECURSIVE VisitOps(_)
VisitOps(visitors) ==
    IF visitors = << >> THEN << >>
    ELSE << Acquire(Head(visitors)), Release(Head(visitors)) >>
             \o VisitOps(Tail(visitors))
ShutdownOps(visitors) ==
    << Acquire("manager") >> \o VisitOps(visitors) \o << Release("manager") >>

\* the visitors a call visits, in the order the HashMap iterates them
VisitOrders ==
    { << >> } \cup { << v >> : v \in VisitorLocks }
        \cup { order \in VisitorLocks \X VisitorLocks : order[1] # order[2] }

\* a visitor's accept path: the new proxy key is entered in the registry
\* while the visitor is locked
ListenerOps(visitor) ==
    << Acquire(visitor), Acquire("registry"), Release("registry"), Release(visitor) >>

\* what a thread may start to do
ThreadPrograms(thread) ==
    IF thread = "poller"
    THEN { IF side = "gateway" THEN GatewayPollerOps(found) ELSE ClientPollerOps(found) :
               found \in VisitorLocks \cup {"none"} }
    ELSE IF thread = "control"
    THEN {StartupOps} \cup { ShutdownOps(visitors) : visitors \in VisitOrders }
    ELSE { ListenerOps(visitor) : visitor \in VisitorLocks }

\* the lock a thread is about to take ("none": it is not about to lock)
Wanted(thread) ==
    IF thread_ops[thread] # << >> /\ Head(thread_ops[thread]).op = "lock"
    THEN Head(thread_ops[thread]).lock ELSE "none"

\* the locks a thread holds
Held(thread) == { l \in Locks : lock_owner[l] = thread }

\* a thread enters a call
Thread_begin(thread, ops) ==
    /\ side \in {"gateway", "client"}
    /\ thread_ops[thread] = << >>
    /\ thread_ops' = [thread_ops EXCEPT ![thread] = ops]
    /\ UNCHANGED << mgrVars, connVars, udpVars, parseVars, asnVars, repo_kind, repo_data,
                    repo_last, alpn_protocols, tls_alpn, handshakes, lock_owner >>

\* lock(): the thread gets the mutex once it is free; a thread that holds it
\* already never gets it
Thread_lock(thread) ==
    /\ Wanted(thread) # "none"
    /\ lock_owner[Wanted(thread)] = "none"
    /\ lock_owner' = [lock_owner EXCEPT ![Wanted(thread)] = thread]
    /\ thread_ops' = [thread_ops EXCEPT ![thread] = Tail(@)]
    /\ UNCHANGED << mgrVars, connVars, udpVars, parseVars, asnVars, repo_kind, repo_data,
                    repo_last, alpn_protocols, tls_alpn, handshakes >>

\* the guard is dropped
Thread_unlock(thread) ==
    /\ thread_ops[thread] # << >>
    /\ Head(thread_ops[thread]).op = "unlock"
    /\ lock_owner' = [lock_owner EXCEPT ![Head(thread_ops[thread]).lock] = "none"]
    /\ thread_ops' = [thread_ops EXCEPT ![thread] = Tail(@)]
    /\ UNCHANGED << mgrVars, connVars, udpVars, parseVars, asnVars, repo_kind, repo_data,
                    repo_last, alpn_protocols, tls_alpn, handshakes >>

LockNext ==
    \/ \E thread \in Threads : \E ops \in ThreadPrograms(thread) :
           Thread_begin(thread, ops)
    \/ \E thread \in Threads : Thread_lock(thread)
    \/ \E thread \in Threads : Thread_unlock(thread)

SpecLocks == BusInit /\ [][LockNext]_vars

(***************************************************************************)
(* stringify_asn_value (crates/common/src/crypto/asn.rs)                   *)
(***************************************************************************)

\* the tags with a match arm, and some of those that fall to the last arm
SupportedTags ==
    {"Boolean", "Enumerated", "GeneralizedTime", "GeneralString", "Ia5String",
     "Integer", "OctetString", "Oid", "PrintableString", "RelativeOid",
     "UtcTime", "Utf8String"}
UnsupportedTags == {"Null", "BitString", "Sequence"}
StringTags == {"GeneralString", "Ia5String", "PrintableString", "Utf8String"}

\* sequences over `alphabet` of the lengths from..MaxAsnLen
Contents(alphabet, from) == UNION { [1..n -> alphabet] : n \in from..MaxAsnLen }

\* What the typed accessor of the tag (bool(), enumerated(), integer(), ...)
\* makes of the content: Err for content it rejects, otherwise the value.  An
\* Integer carries what as_i64() gives for it: the number, or an error when the
\* number needs more than 64 bits.
AsnValues(tag) ==
    IF tag = "Boolean" THEN BOOLEAN
    ELSE IF tag = "Enumerated" THEN {0, 7, 12}
    ELSE IF tag \in {"GeneralizedTime", "UtcTime"}
    THEN {<< 2024, 1, 31 >>, << 1999, 12, 1 >>}
    ELSE IF tag \in StringTags THEN Contents({"a", "b", "c"}, 0)
    ELSE IF tag = "Integer"
    THEN { [as_i64 |-> Ok(v)] : v \in {0, 7, 127, 0 - 1, 0 - 128} }
             \cup {[as_i64 |-> Err("IntegerTooLarge")]}
    ELSE IF tag = "OctetString" THEN Contents({0, 10, 171}, 0)
    ELSE Contents({1, 2}, 1)

\* the Any values stringify_asn_value is called with
AsnAttrs ==
    UNION { { [tag |-> t, value |-> Ok(v)] : v \in AsnValues(t) } : t \in SupportedTags }
        \cup { [tag |-> t, value |-> Err("decode")] : t \in SupportedTags }
        \cup { [tag |-> t, value |-> Ok(<< >>)] : t \in UnsupportedTags }

Digits == << "0", "1", "2", "3", "4", "5", "6", "7", "8", "9",
             "a", "b", "c", "d", "e", "f" >>

\* to_string of an integer: its decimal digits, "-" before a negative number
RECURSIVE Decimal(_)
Decimal(n) ==
    IF n < 0 THEN << "-" >> \o Decimal(0 - n)
    ELSE IF n < 10 THEN << Digits[n + 1] >>
    ELSE Decimal(n \div 10) \o << Digits[(n % 10) + 1] >>

\* format!("{:02x}", x) over the octets, collected into one String
RECURSIVE HexString(_)
HexString(octets) ==
    IF octets = << >> THEN << >>
    ELSE << Digits[(Head(octets) \div 16) + 1], Digits[(Head(octets) % 16) + 1] >>
             \o HexString(Tail(octets))

\* to_string of a time and format_oid of an object identifier: the fields,
\* resp. the arcs, in decimal with a separator between them
RECURSIVE Joined(_, _)
Joined(numbers, separator) ==
    IF Len(numbers) = 1 THEN Decimal(Head(numbers))
    ELSE Decimal(Head(numbers)) \o << separator >> \o Joined(Tail(numbers), separator)

\* the results of stringify_asn_value; a panic unwinds and returns nothing
AsnOk(text) == [kind |-> "ok", text |-> text]
AsnConversionError == [kind |-> "err", err |-> "Failed ASN value conversion"]
AsnUnsupportedTag(tag) == [kind |-> "err", err |-> << "unsupported tag", tag >>]
AsnPanic == [kind |-> "panic"]

\* stringify_asn_value(asn_attr)
stringify_asn_value(attr) ==
    LET tag == attr.tag
        value == attr.value
    IN
    IF tag \notin SupportedTags THEN AsnUnsupportedTag(tag)
    ELSE IF ~value.ok THEN AsnConversionError
    ELSE IF tag = "Boolean"
    THEN AsnOk(IF value.val THEN << "t", "r", "u", "e" >>
               ELSE << "f", "a", "l", "s", "e" >>)
    ELSE IF tag = "Enumerated" THEN AsnOk(Decimal(value.val))
    ELSE IF tag \in {"GeneralizedTime", "UtcTime"} THEN AsnOk(Joined(value.val, "-"))
    ELSE IF tag \in StringTags THEN AsnOk(value.val)
    ELSE IF tag = "Integer"
    THEN \* .map(|v| v.as_i64()).map(|v| v.unwrap().to_string())
         IF value.val.as_i64.ok THEN AsnOk(Decimal(value.val.as_i64.val))
         ELSE AsnPanic
    ELSE IF tag = "OctetString" THEN AsnOk(HexString(value.val))
    ELSE AsnOk(Joined(value.val, "."))

\* a call of stringify_asn_value
Call_stringify_asn_value(attr) ==
    /\ asn_attr' = attr
    /\ asn_result' = stringify_asn_value(attr)
    /\ UNCHANGED << mgrVars, connVars, udpVars, lockVars, parseVars, repo_kind, repo_data,
                    repo_last, alpn_protocols, tls_alpn, handshakes >>

AsnInit ==
    /\ NoManager
    /\ NoConnection
    /\ NoServer
    /\ NoData

AsnNext == \E attr \in AsnAttrs : Call_stringify_asn_value(attr)

SpecAsn == AsnInit /\ [][AsnNext]_vars
(***************************************************************************)
(* parse_gateway_service_ports (crates/gateway/src/config.rs)              *)
(***************************************************************************)

\* A text is the sequence of its characters; a character outside ASCII is
\* written by its code point ("U+0663": ARABIC-INDIC DIGIT THREE).
\* The digits str::parse::<u16> takes
DecimalDigits == {"0", "1", "2", "3", "4", "5", "6", "7", "8", "9"}
\* The characters \d of the regex crate takes: every decimal digit of
\* Unicode (class Nd), those of ASCII and, of the others, these two
UnicodeDigits == DecimalDigits \cup {"U+0660", "U+0663"}

\* the texts given as --gateway-service-ports: two numbers around a "-", with
\* or without text around them, and texts without such a pair
NumberTexts ==
    { << >>, << "0" >>, << "2", "0" >>, << "4", "0" >>, << "0", "0", "7" >>,
      << "6", "5", "5", "3", "5" >>, << "6", "5", "5", "3", "6" >>,
      << "U+0663", "2", "0" >>, << "4", "U+0660" >> }
TextsBefore == { << >>, << "x" >>, << "9", " " >> }
TextsAfter == { << >>, << "x" >> }
PortTexts ==
    { pre \o a \o << "-" >> \o b \o post :
          pre \in TextsBefore, a \in NumberTexts, b \in NumberTexts,
          post \in TextsAfter }
        \cup { << "2", "0", "-", "N", "A", "N" >>, << "2", "0" >>, << "N" >> }

\* the end of the longest run of digits of `text` that starts at `from`
RECURSIVE DigitsEnd(_, _)
DigitsEnd(text, from) ==
    IF from + 1 <= Len(text) /\ text[from + 1] \in UnicodeDigits
    THEN DigitsEnd(text, from + 1) ELSE from

\* the regular expression (\d+)-(\d+) matches at position i: digits from i,
\* a "-" after the last of them, a digit after it
MatchesAt(text, i) ==
    /\ text[i] \in UnicodeDigits
    /\ DigitsEnd(text, i) + 2 <= Len(text)
    /\ text[DigitsEnd(text, i) + 1] = "-"
    /\ text[DigitsEnd(text, i) + 2] \in UnicodeDigits

\* Regex::captures: the leftmost match and its two groups, None without match
Captures(text) ==
    LET starts == { i \in 1..Len(text) : MatchesAt(text, i) }
    IN  IF starts = {} THEN None
        ELSE LET i == CHOOSE x \in starts : \A y \in starts : x <= y
                 j == DigitsEnd(text, i)
             IN  Some(<< SubSeq(text, i, j), SubSeq(text, j + 2, DigitsEnd(text, j + 2)) >>)

\* the number a run of ASCII decimal digits writes
RECURSIVE NumberOf(_)
NumberOf(digits) ==
    IF digits = << >> THEN 0
    ELSE 10 * NumberOf(SubSeq(digits, 1, Len(digits) - 1))
           + (CHOOSE d \in 0..9 : Digits[d + 1] = digits[Len(digits)])

\* str::parse::<u16>().unwrap_or(0): 0 for every error of parse, which are
\* the empty text, a character that is no ASCII digit (InvalidDigit) and a
\* number above u16::MAX (PosOverflow); one "+" before the digits is taken
ParseU16OrZero(digits) ==
    LET unsigned == IF digits # << >> /\ digits[1] = "+" THEN Tail(digits)
                    ELSE digits
    IN  IF unsigned = << >> THEN 0
        ELSE IF \E i \in 1..Len(unsigned) : unsigned[i] \notin DecimalDigits
        THEN 0
        ELSE IF NumberOf(unsigned) <= U16_MAX THEN NumberOf(unsigned) ELSE 0

\* `if (port_start == 0) || (port_end == 0)`
PortsRejected(port_start, port_end) == port_start = 0 \/ port_end = 0

\* AppConfig::parse_gateway_service_ports
parse_gateway_service_ports(text) ==
    LET number_captures == Captures(text)
        port_start == ParseU16OrZero(Unwrap(number_captures)[1])
        port_end == ParseU16OrZero(Unwrap(number_captures)[2])
    IN  IF ~IsSome(number_captures)
        THEN [kind |-> "err", err |-> "Invalid gateway service port range"]
        ELSE IF PortsRejected(port_start, port_end)
        THEN [kind |-> "err",
              err |-> "Invalid gateway service port range (u16 vals required)"]
        ELSE [kind |-> "ok", val |-> << port_start, port_end >>]

\* a call of parse_gateway_service_ports
Call_parse_gateway_service_ports(text) ==
    /\ ports_arg' = text
    /\ ports_parsed' = parse_gateway_service_ports(text)
    /\ UNCHANGED << mgrVars, connVars, udpVars, lockVars, asnVars, repo_kind,
                    repo_data, repo_last, alpn_protocols, tls_alpn, handshakes >>

ParseInit ==
    /\ NoManager
    /\ NoConnection
    /\ NoServer
    /\ NoData

ParseNext == \E text \in PortTexts : Call_parse_gateway_service_ports(text)

SpecParse == ParseInit /\ [][ParseNext]_vars

\* the steps of the thread that runs poll_connection, without the owner's
\* choice to call it once more after it has returned
ConnPollRun == conn_pc # "returned" /\ ConnPoll

\* the thread that runs poll_connection is scheduled again and again
\* and a stream that is not writable becomes writable
SpecConnFair ==
    /\ SpecConn
    /\ WF_vars(ConnPollRun)
    /\ WF_vars(\E stream_ok \in BOOLEAN : Connection_poll_event("ok", stream_ok))

\* the peer has closed the connection in an orderly way: every read of the
\* stream returns Ok(0), the buffer is empty and on_connection_read is not
\* called
PeerClosedRead == << StreamData(0) >>

\* poll_connection on such a connection
PeerClosedPoll ==
    \/ Connection_poll_connection
    \/ Connection_poll_read(PeerClosedRead)
    \/ Connection_poll_cycle
    \/ \E write_outcome \in WriteOutcomes, stream_ok \in BOOLEAN :
           Connection_poll_event(write_outcome, stream_ok)
    \/ Connection_poll_check

PeerClosedNext ==
    \/ PeerClosedPoll
    \/ \E ev \in { ConnectionEvent_Closing, ConnectionEvent_Closed,
                   ConnectionEvent_Write(WriteBuffer(MaxSends - sends_left + 1)) } :
           Connection_send(ev)

\* the owner calls poll_connection and nothing else; the polling thread is
\* scheduled again and again
SpecPeerClosed ==
    /\ ConnInit
    /\ [][PeerClosedNext]_vars
    /\ WF_vars(conn_pc # "returned" /\ PeerClosedPoll)

(***************************************************************************)
(* Properties                                                              *)
(***************************************************************************)

\* the visitors that hold an entry for proxy key k
HoldersOf(k) == { s \in ServiceIds : Visitor_has_proxy_key(proxy_conns[s], k) }
\* the entries all visitors hold for proxy key k
EntriesOf(k) == UNION { { << s, c >> : c \in { d \in proxy_conns[s] : d[2] = k } } :
                        s \in ServiceIds }
\* the step is the manager's reaction to Closed(key) (on_closed_proxy, or
\* the client poller's visitor call)
IsClosedProxyStep ==
    poller.pc \in {"process", "resolved"} /\ result'.op = "on_closed_proxy"

\* C1 -- Close-event routing: when on_closed_proxy(key) runs for a key that
\* the registry maps to service s and s has a visitor, remove_proxy_for_key(key)
\* is called exactly once on the visitor of s and on no other visitor.
C1_CloseEventRouting ==
    [][ (/\ IsClosedProxyStep
         /\ poller.key \in DOMAIN services_by_proxy_key
         /\ services_by_proxy_key[poller.key] \in DOMAIN service_proxy_visitors)
        => calls' = CallsOn({ services_by_proxy_key[poller.key] },
                            << Call("remove_proxy_for_key", poller.key) >>) ]_vars

\* C1 witness: the gateway has reacted to Closed(key) with visitors
\* registered for two services, and one of them was called
C1_Witness ==
    /\ side = "gateway"
    /\ result.op = "on_closed_proxy"
    /\ Cardinality(DOMAIN service_proxy_visitors) >= 2
    /\ \E s \in ServiceIds : calls[s] = << Call("remove_proxy_for_key", result.key) >>

\* a proxy key is live from its accept until the poller has started to
\* remove it
LiveKey(k) ==
    \/ tunnel[k] = "open"
    \/ tunnel[k] = "closed" /\ ~(poller.pc = "registry" /\ poller.key = k)

\* C2 -- P1: every live proxy key has exactly one visitor entry, held by the
\* visitor of the service the registry gives for the key; once its Closed
\* event is fully processed the key is in no visitor's set and not in the
\* registry; and a registry entry is only removed when no visitor holds the
\* key any more (visitor first, registry second).
C2_OnePairPerLiveKey ==
    /\ [](\A k \in ProxyKeys :
            /\ LiveKey(k) =>
                 /\ k \in DOMAIN services_by_proxy_key
                 /\ HoldersOf(k) = { services_by_proxy_key[k] }
                 /\ Cardinality(EntriesOf(k)) = 1
            /\ tunnel[k] = "reaped" =>
                 /\ k \notin DOMAIN services_by_proxy_key
                 /\ HoldersOf(k) = {})
    /\ [][ \A k \in ProxyKeys :
             (k \in DOMAIN services_by_proxy_key /\ k \notin DOMAIN services_by_proxy_key')
             => HoldersOf(k) = {} ]_vars

\* C2 witness: a Closed event has been fully processed on the client, whose
\* visitor was asked to remove the key
C2_Witness ==
    /\ side = "client"
    /\ result.op = "on_closed_proxy"
    /\ tunnel[result.key] = "reaped"
    /\ \E s \in ServiceIds : calls[s] # << >>

\* C3 -- Client startup is idempotent per service id: a startup call for a
\* service id that service_addrs already holds returns the stored ProxyAddrs,
\* whatever addrs are passed, and leaves service_addrs, service_proxies,
\* service_proxy_visitors and service_proxy_threads unchanged.
C3_ClientStartupIdempotent ==
    [][ (/\ side = "client"
         /\ result'.op = "startup"
         /\ result'.service_id \in DOMAIN service_addrs)
        => /\ result'.ret = Ok(service_addrs[result'.service_id])
           /\ UNCHANGED << service_addrs, service_proxies, service_proxy_visitors,
                           service_proxy_threads >> ]_vars

\* C3 witness: a startup was given other addrs than the stored ones and
\* returned the stored ones
C3_Witness ==
    /\ side = "client"
    /\ result.op = "startup"
    /\ result.ret.ok
    /\ result.service_id \in DOMAIN service_addrs
    /\ result.ret.val = service_addrs[result.service_id]
    /\ result.proxy_addrs # result.ret.val

\* C4 -- Gateway startup is idempotent per service id: a startup call for a
\* service id that service_ports already holds returns (gateway_service_host,
\* the stored port), calls no visitor, and leaves service_ports,
\* service_proxies, service_proxy_visitors, service_proxy_threads and
\* next_service_port unchanged.
C4_GatewayStartupIdempotent ==
    [][ (/\ side = "gateway"
         /\ result'.op = "startup"
         /\ result'.service_id \in DOMAIN service_ports)
        => /\ result'.ret = Ok(<< GATEWAY_HOST, service_ports[result'.service_id] >>)
           /\ calls' = NoCalls
           /\ UNCHANGED << service_ports, service_proxies, service_proxy_visitors,
                           service_proxy_threads, next_service_port >> ]_vars

\* C4 witness: a startup whose visitor construction would have failed
\* returned Ok, the service being started already, in distinct-port mode
C4_Witness ==
    /\ side = "gateway"
    /\ ~IsSome(shared_service_port)
    /\ result.op = "startup"
    /\ ~result.visitor_ok
    /\ result.ret.ok
    /\ result.ret.val = << GATEWAY_HOST, service_ports[result.service_id] >>

\* the configured distinct-port range [start, end] and its number of ports
RangeStart == Unwrap(gateway_service_ports)[1]
RangeEnd == Unwrap(gateway_service_ports)[2]
RangeCapacity == IF RangeEnd >= RangeStart THEN RangeEnd - RangeStart + 1 ELSE 0
\* the ports handed out so far
PortsInUse == { service_ports[s] : s \in DOMAIN service_ports }
\* the step is a gateway startup of a service that is not started yet
IsNewStartupStep ==
    /\ side = "gateway"
    /\ result'.op = "startup"
    /\ result'.service_id \notin DOMAIN service_ports

\* C5 -- Port exhaustion in distinct-port mode with range [start, end]: while
\* every visitor construction succeeds, a startup of a new service succeeds if
\* fewer than end-start+1 services are started, and otherwise fails with the
\* 'exhausted' error and leaves service_ports, service_proxies and
\* service_proxy_visitors unchanged.
C5_PortExhaustion ==
    [][ (/\ IsNewStartupStep
         /\ IsSome(gateway_service_ports)
         /\ visitor_fails' = 0
         /\ result'.visitor_ok)
        => IF Cardinality(DOMAIN service_ports) < RangeCapacity
           THEN result'.ret.ok
           ELSE /\ result'.ret = Err("exhausted")
                /\ UNCHANGED << service_ports, service_proxies,
                                service_proxy_visitors >> ]_vars

\* C6 -- Distinct-port allocation: the ports in service_ports are pairwise
\* distinct and lie in [start, end], and the k-th newly started service gets
\* port start+k-1.
C6_DistinctPortAllocation ==
    /\ [](IsSome(gateway_service_ports) =>
            /\ Cardinality(PortsInUse) = Cardinality(DOMAIN service_ports)
            /\ \A p \in PortsInUse : RangeStart <= p /\ p <= RangeEnd)
    /\ [][ (/\ IsNewStartupStep
            /\ IsSome(gateway_service_ports)
            /\ result'.ret.ok)
           => service_ports'[result'.service_id]
                = RangeStart + Cardinality(DOMAIN service_ports) ]_vars

\* C7 -- Gateway shutdown_connections(user, svc) calls the visitor-level
\* shutdown_connections exactly once, with user unchanged, on every visitor
\* whose service id is svc (on every visitor when svc is None), and calls
\* nothing on any other visitor.
C7_ShutdownConnectionsTargets ==
    (side = "gateway" /\ result.op = "shutdown_connections")
    => calls = CallsOn({ s \in DOMAIN service_proxy_visitors :
                            result.service_id = None \/ result.service_id = Some(s) },
                       << Call("shutdown_connections", result.user_id) >>)

\* C7 witness: with two visitors registered, shutdown_connections for a user
\* and one service has called that service's visitor
C7_Witness ==
    /\ side = "gateway"
    /\ result.op = "shutdown_connections"
    /\ IsSome(result.user_id)
    /\ IsSome(result.service_id)
    /\ Cardinality(DOMAIN service_proxy_visitors) >= 2
    /\ calls[Unwrap(result.service_id)] # << >>

\* C8 -- Manager-level shutdown (client shutdown(), gateway
\* shutdown_connections) calls every selected visitor whichever visitors
\* fail, and returns an error if and only if at least one of them failed; the
\* client calls set_shutdown_requested(true) on a visitor before that
\* visitor's shutdown_connections.
C8_ShutdownVisitsAllAndAggregates ==
    /\ (side = "gateway" /\ result.op = "shutdown_connections") =>
          LET selected == { s \in DOMAIN service_proxy_visitors :
                               result.service_id = None \/ result.service_id = Some(s) }
          IN  /\ \A s \in selected : Len(calls[s]) = 1
              /\ result.ret.ok <=> (selected \cap result.failing = {})
    /\ (side = "client" /\ result.op = "shutdown") =>
          /\ \A s \in DOMAIN service_proxy_visitors :
                /\ calls[s] = << Call("set_shutdown_requested", TRUE),
                                 Call("shutdown_connections", None) >>
                /\ shutdown_requested[s]
          /\ result.ret.ok <=> (DOMAIN service_proxy_visitors \cap result.failing = {})

\* C8 witness: a client shutdown() over two visitors, one of which failed,
\* has returned the error
C8_Witness ==
    /\ side = "client"
    /\ result.op = "shutdown"
    /\ ~result.ret.ok
    /\ Cardinality(DOMAIN service_proxy_visitors) >= 2
    /\ Cardinality(result.failing) = 1
    /\ \A s \in DOMAIN service_proxy_visitors : Len(calls[s]) = 2

\* poll_connection runs
InPollConnection == conn_pc \in {"read", "visit", "cycle", "events", "check"}

\* the side effects of shutdown so far: TCP shutdowns of both halves, Closed
\* events sent, calls of the visitor's on_shutdown
ShutdownEffects == << stream_shutdowns, closed_sent, on_shutdown_calls >>

\* C9 -- A connection only moves Open -> Closing -> Closed: closed, once
\* true, stays true for the rest of poll_connection, and the shutdown side
\* effects (TCP shutdown of both halves, the Closed event, the visitor's
\* on_shutdown) happen together, exactly once, in the step in which
\* poll_connection closes the connection, and in no other step, however many
\* Closing events are handled.
C9_CloseOnce ==
    /\ [][InPollConnection /\ closed => closed']_vars
    /\ [][InPollConnection /\ ~closed /\ closed'
              => /\ stream_shutdowns' = Inc(stream_shutdowns)
                 /\ closed_sent' = Inc(closed_sent)
                 /\ on_shutdown_calls' = Inc(on_shutdown_calls)]_vars
    /\ [][ShutdownEffects' # ShutdownEffects
              => InPollConnection /\ ~closed /\ closed']_vars
    /\ [](closed_sent = stream_shutdowns /\ on_shutdown_calls = stream_shutdowns)

\* C9 witness: poll_connection has returned on a connection it closed, after
\* handling two Closing events
C9_Witness ==
    /\ conn_pc = "returned"
    /\ closed
    /\ ShutdownEffects = << 1, 1, 1 >>
    /\ closing_handled >= 2

\* a Closing event is in the connection's event channel
ClosingEnqueued ==
    \E i \in 1..Len(event_channel) : event_channel[i] = ConnectionEvent_Closing

\* C10 -- Closing always completes: once a Closing event is enqueued,
\* poll_connection eventually returns, and it returns only with closed true.
C10_ClosingCompletes ==
    /\ ClosingEnqueued ~> (conn_pc = "returned")
    /\ [](conn_pc = "returned" => closed)

\* the bytes of s are in the order of their numbers, none of them twice
InSendOrder(s) == \A i, j \in 1..Len(s) : i < j => s[i] < s[j]

\* C11 -- Write ordering on one connection: the bytes of the Write events
\* reach the TCP stream in the order in which the events were enqueued, each
\* byte once, also when a write hits WouldBlock and its buffer is enqueued
\* again while other Write events are pending.
C11_WriteOrdering == InSendOrder(written)

\* the bytes a read outcome holds: all its chunks
OutcomeBytes(outcome) ==
    LET RECURSIVE Total(_)
        Total(i) == IF i = 0 THEN 0 ELSE Total(i - 1) + outcome[i].n
    IN  StreamBytes(0, Total(Len(outcome)))
\* the read outcome has data and ends with a shorter chunk or with WouldBlock
DataAvailable(outcome) ==
    /\ OutcomeBytes(outcome) # << >>
    /\ outcome[Len(outcome)].kind \in {"data", "would_block"}
\* the read outcome is WouldBlock at once
NothingToRead(outcome) == outcome = << StreamError("would_block") >>

\* C12 (as stated) -- read with data available returns exactly the stream's
\* bytes, passes exactly them to on_connection_read, once, and enqueues no
\* event; with nothing to read it returns an empty buffer, does not call the
\* visitor and enqueues nothing.
C12_ReadDelivers ==
    io.op = "read" =>
       /\ DataAvailable(io.outcome) =>
             /\ io.ret = Ok(OutcomeBytes(io.outcome))
             /\ io.visited = << OutcomeBytes(io.outcome) >>
             /\ io.sent = << >>
       /\ NothingToRead(io.outcome) =>
             io.ret = Ok(<< >>) /\ io.visited = << >> /\ io.sent = << >>

\* C12 (amended) -- the same with on_connection_read called exactly once with
\* exactly the stream's bytes in every case, and the bytes returned and no
\* event enqueued when on_connection_read returns Ok; when it returns Err,
\* read returns an error and enqueues one Closing.
C12_ReadDeliversVisitorOk ==
    io.op = "read" =>
       /\ DataAvailable(io.outcome) =>
             /\ io.visited = << OutcomeBytes(io.outcome) >>
             /\ io.visit_ok =>
                   io.ret = Ok(OutcomeBytes(io.outcome)) /\ io.sent = << >>
             /\ ~io.visit_ok =>
                   ~io.ret.ok /\ io.sent = << ConnectionEvent_Closing >>
       /\ NothingToRead(io.outcome) =>
             io.ret = Ok(<< >>) /\ io.visited = << >> /\ io.sent = << >>

\* C12 witness: a read of a full chunk and a shorter one has returned all of
\* its bytes
C12_Witness ==
    /\ io.op = "read"
    /\ io.visited # << >>
    /\ io.visit_ok
    /\ Len(io.outcome) = 2
    /\ io.outcome[2] = StreamData(READ_BLOCK_SIZE - 1)
    /\ io.ret.ok
    /\ Len(io.ret.val) = 2 * READ_BLOCK_SIZE - 1

\* the kind of the result that ended the read
LastKind(outcome) == outcome[Len(outcome)].kind

\* C13 (as stated) -- read on a failed read: on end-of-file read enqueues a
\* Closing event, returns Ok with an empty buffer and does not call
\* on_connection_read; on any other error except WouldBlock it enqueues
\* exactly one Closing event, returns the error and does not call
\* on_connection_read.
C13_ReadFailure ==
    io.op = "read" =>
       /\ LastKind(io.outcome) = "eof" =>
             /\ io.sent # << >>
             /\ \A i \in 1..Len(io.sent) : io.sent[i] = ConnectionEvent_Closing
             /\ io.ret = Ok(<< >>)
             /\ io.visited = << >>
       /\ LastKind(io.outcome) = "error" =>
             /\ io.sent = << ConnectionEvent_Closing >>
             /\ ~io.ret.ok
             /\ io.visited = << >>

\* C13 (amended) -- the end-of-file part holds when end-of-file is the first
\* result of the call; after full chunks read in the same call, read passes
\* those bytes to on_connection_read and returns them (or the visitor's error,
\* with a second Closing).  The part on other errors holds as stated.
C13_ReadFailureFirstEof ==
    io.op = "read" =>
       /\ io.outcome = << StreamError("eof") >> =>
             /\ io.sent = << ConnectionEvent_Closing >>
             /\ io.ret = Ok(<< >>)
             /\ io.visited = << >>
       /\ (LastKind(io.outcome) = "eof" /\ Len(io.outcome) > 1) =>
             /\ io.visited = << OutcomeBytes(io.outcome) >>
             /\ io.visit_ok =>
                   /\ io.ret = Ok(OutcomeBytes(io.outcome))
                   /\ io.sent = << ConnectionEvent_Closing >>
             /\ ~io.visit_ok =>
                   /\ ~io.ret.ok
                   /\ io.sent = << ConnectionEvent_Closing, ConnectionEvent_Closing >>
       /\ LastKind(io.outcome) = "error" =>
             /\ io.sent = << ConnectionEvent_Closing >>
             /\ ~io.ret.ok
             /\ io.visited = << >>

\* C13 witness: a read that met an error after a full chunk has enqueued
\* Closing and returned the error
C13_Witness ==
    /\ io.op = "read"
    /\ Len(io.outcome) = 2
    /\ LastKind(io.outcome) = "error"
    /\ ~io.ret.ok
    /\ event_channel # << >>
    /\ event_channel[Len(event_channel)] = ConnectionEvent_Closing

\* C14 -- write by stream result: success enqueues nothing and returns Ok;
\* WouldBlock enqueues exactly one Write event with the same bytes and returns
\* Ok; end-of-file enqueues exactly one Closing and returns Ok; any other
\* error enqueues exactly one Closing and returns the error.
C14_WriteOutcome ==
    io.op = "write" =>
       /\ io.outcome = "ok" => io.sent = << >> /\ io.ret.ok
       /\ io.outcome \in {"would_block", "would_block_partial"} =>
             io.sent = << ConnectionEvent_Write(io.buffer) >> /\ io.ret.ok
       /\ io.outcome \in {"eof", "eof_partial"} =>
             io.sent = << ConnectionEvent_Closing >> /\ io.ret.ok
       /\ io.outcome \in {"error", "error_partial"} =>
             io.sent = << ConnectionEvent_Closing >> /\ ~io.ret.ok

\* C14 witness: a write that would block has put its buffer back on the
\* event channel
C14_Witness ==
    /\ io.op = "write"
    /\ io.outcome = "would_block"
    /\ io.buffer = WriteBuffer(2)
    /\ event_channel # << >>
    /\ event_channel[Len(event_channel)] = ConnectionEvent_Write(WriteBuffer(2))

\* C15 -- The event poller keeps consuming events: no received event (Closed
\* or Message) stops or crashes it, and it is gone only when recv has failed.
C15_PollerKeepsConsuming == poller.pc \notin {"crashed", "returned"}

\* the Closed event being handled is stale: its key is not in the registry,
\* or the service the registry gives has no visitor
StaleKey(k) ==
    \/ k \notin DOMAIN services_by_proxy_key
    \/ services_by_proxy_key[k] \notin DOMAIN service_proxy_visitors

\* C16 -- A stale Closed(key) is silently dropped: when key is not in the
\* registry, or its service has no visitor, no visitor's remove_proxy_for_key
\* is called, no manager state changes and the poller goes on to the next
\* event, whatever service ids are started (u64::MAX included).
C16_StaleClosedDropped ==
    [][ (IsClosedProxyStep /\ StaleKey(poller.key))
        => /\ calls' = NoCalls
           /\ poller'.pc = "recv"
           /\ UNCHANGED << service_ports, service_addrs, service_proxies,
                           service_proxy_visitors, service_proxy_threads,
                           services_by_proxy_key, proxy_conns >> ]_vars

\* the visitors whose lock the last operation took
VisitorsLocked == { s \in ServiceIds : calls[s] # << >> }

\* C17 -- Lock discipline: no thread waits for a visitor's lock while it holds
\* the manager's lock (event pollers, shutdown, shutdown_connections).
C17_LockDiscipline == VisitorsLocked # {} => "manager" \notin result.holding


\* C18: cooperative UDP shutdown.  Once get_shutdown_requested() has become
\* true during an iteration of poll_new_messages' loop, no further iteration
\* begins and at most one more datagram is handed to the visitor; and the step
\* in which poll_new_messages then returns leaves polling false, closed true
\* and the server socket released.
C18_CooperativeShutdown ==
    [][ /\ requested_at' = "iteration" =>
              /\ polls_after_request' = 0
              /\ delivered_after_request' <= 1
        /\ (requested_at = "iteration" /\ server_pc = "after" /\ server_pc' = "idle") =>
              /\ ~polling'
              /\ server_closed'
              /\ ~server_socket' ]_vars

\* poll_new_messages has returned after a request made in an iteration in which
\* one more datagram was still handed over
C18_Witness ==
    /\ server_pc = "idle"
    /\ server_last.op = "poll_new_messages"
    /\ requested_at = "iteration"
    /\ delivered_after_request = 1
    /\ server_closed
    /\ ~server_socket


\* the key sets of the per-service maps of the manager at hand
ServiceKeySets ==
    IF side = "gateway"
    THEN { DOMAIN service_ports, DOMAIN service_proxies,
           DOMAIN service_proxy_visitors }
    ELSE { DOMAIN service_addrs, DOMAIN service_proxies,
           DOMAIN service_proxy_visitors, DOMAIN service_proxy_threads }

\* C19 -- At most one listener per service_id: after any sequence of startup,
\* shutdown and close-event operations the per-service maps have identical key
\* sets (gateway: service_ports, service_proxies, service_proxy_visitors;
\* client: service_addrs, service_proxies, service_proxy_visitors,
\* service_proxy_threads), and a service whose startup returned Ok has its
\* entry in each of them.
C19_OneListenerPerService ==
    /\ Cardinality(ServiceKeySets) = 1
    /\ (result.op = "startup" /\ result.ret.ok) =>
           \A keys \in ServiceKeySets : result.service_id \in keys

\* a client's started service that has been shut down, and then had a tunnel
\* closed through the event bus, still has its entries
C19_Witness ==
    /\ side = "client"
    /\ result.op = "on_closed_proxy"
    /\ \E s \in DOMAIN service_proxy_threads :
           /\ shutdown_requested[s]
           /\ calls[s] = << Call("remove_proxy_for_key", result.key) >>


\* C20 -- Shared-port mode: every started service (TCP or UDP) is assigned the
\* gateway's single shared port, a visitor and a proxy are registered for it,
\* and no listener thread is ever recorded (service_proxy_threads stays
\* empty); in distinct-port mode every started service has exactly one
\* recorded listener thread.
C20_SharedPortMode ==
    side = "gateway" =>
        IF IsSome(shared_service_port)
        THEN /\ \A s \in DOMAIN service_ports :
                    /\ service_ports[s] = Unwrap(shared_service_port)
                    /\ s \in DOMAIN service_proxy_visitors
                    /\ s \in DOMAIN service_proxies
                    /\ service_proxies[s].port = Unwrap(shared_service_port)
             /\ DOMAIN service_proxy_threads = {}
        ELSE DOMAIN service_proxy_threads = DOMAIN service_ports

\* a gateway on the shared port has started a UDP service
C20_Witness ==
    /\ side = "gateway"
    /\ IsSome(shared_service_port)
    /\ result.op = "startup"
    /\ result.ret.ok
    /\ \E s \in DOMAIN service_ports : service_proxies[s].transport = "UDP"


\* the services the last completed call shut down: gateway
\* shutdown_connections(None, Some(s)), client _shutdown_for_service(s) and
\* shutdown()
ServicesShutDown ==
    IF result.op = "shutdown_connections"
    THEN IF result.user_id = None /\ IsSome(result.service_id)
         THEN {Unwrap(result.service_id)} ELSE {}
    ELSE IF result.op = "_shutdown_for_service" THEN {result.service_id}
    ELSE IF result.op = "shutdown" THEN ServiceIds
    ELSE {}

\* the services the manager holds a listener entry for
ListenerEntries ==
    DOMAIN service_ports \cup DOMAIN service_addrs \cup DOMAIN service_proxies
        \cup DOMAIN service_proxy_visitors \cup DOMAIN service_proxy_threads

\* C21 -- A service proxy is destroyed by a shutdown for its service: once
\* gateway shutdown_connections(None, Some(s)) (client: _shutdown_for_service(s)
\* or shutdown()) has completed, the manager holds no listener entry for s, so
\* that a later startup for s creates a new listener.
C21_ShutdownDestroysProxy ==
    \A s \in ServicesShutDown : result.ret.ok => s \notin ListenerEntries


\* the join handles the manager holds that nobody has joined
UnjoinedThreads ==
    { s \in DOMAIN service_proxy_threads : service_proxy_threads[s] # "joined" }

\* C22 -- When the manager's shutdown() returns, every listener worker thread
\* the manager spawned in startup has terminated and has been joined.
C22_ShutdownJoinsThreads ==
    (side = "client" /\ result.op = "shutdown") => UnjoinedThreads = {}


\* C23 -- has_proxy_for_user_and_service(user, svc) is true if and only if a
\* visitor is registered for svc and that visitor's address set for user is
\* non-empty; for a service without a visitor it returns false without
\* querying any visitor, a registered visitor is queried exactly once and only
\* for that user, and the manager's state is unchanged.
C23_HasProxy ==
    [][ result'.op = "has_proxy_for_user_and_service" =>
          LET svc == result'.service_id
              user == result'.user_id
              registered == svc \in DOMAIN service_proxy_visitors
          IN /\ result'.ret <=>
                    /\ registered
                    /\ \E c \in proxy_conns[svc] : c[1] = user
             /\ ~registered => calls' = NoCalls /\ result'.ret = FALSE
             /\ registered =>
                    calls' = CallsOn({svc}, << Call("get_proxy_addrs_for_user", user) >>)
             /\ UNCHANGED << service_ports, service_proxies, service_proxy_visitors,
                             service_proxy_threads, services_by_proxy_key,
                             proxy_conns, next_service_port, proxy_events >> ]_vars

\* the gateway was asked about a user without tunnels on a registered service
\* where another user has one, and answered false after querying its visitor
C23_Witness ==
    /\ result.op = "has_proxy_for_user_and_service"
    /\ result.service_id \in DOMAIN service_proxy_visitors
    /\ proxy_conns[result.service_id] # {}
    /\ ~result.ret


\* the step is a get that directly follows a call `op` on the same key
IsGetAfter(op) ==
    /\ repo_last.op = op
    /\ repo_last'.op = "get"
    /\ repo_last'.key = repo_last.key

\* C24 -- Repository round trip (access and service repositories), after any
\* sequence of put and delete: put(x) followed by get(x.id) returns Some(x), a
\* put on an existing key replacing the whole record; delete(x.id) followed by
\* get(x.id) returns None; records under other keys are unaffected.
C24_RepoRoundTrip ==
    [][ /\ IsGetAfter("put") => repo_last'.ret = Ok(Some(repo_last.record))
        /\ IsGetAfter("delete") => repo_last'.ret = Ok(None)
        /\ repo_last'.op \in {"put", "delete"} =>
               \A k \in RepoKeys(repo_kind) \ {repo_last'.key} :
                   MapGet(repo_data', k) = MapGet(repo_data, k) ]_vars

\* get has returned a stored record while another key holds a record too
C24_Witness ==
    /\ repo_kind = "service"
    /\ repo_last.op = "get"
    /\ IsSome(repo_last.ret.val)
    /\ Cardinality(DOMAIN repo_data) >= 2


\* the step is a connect_to_datasource that succeeds on an empty repository
IsLoadStep ==
    /\ repo_data = EmptyMap
    /\ repo_last'.op = "connect_to_datasource"
    /\ repo_last' # repo_last
    /\ repo_last'.ret.ok

\* the repository holds exactly the records of the array
HoldsArray(data, records) ==
    /\ Cardinality(DOMAIN data) = Len(records)
    /\ \A i \in 1..Len(records) :
           MapGet(data, RepoKey(repo_kind, records[i])) = Some(records[i])

\* no two records of the array have the same key
DistinctKeys(records) ==
    \A i, j \in 1..Len(records) :
        RepoKey(repo_kind, records[i]) = RepoKey(repo_kind, records[j]) => i = j

\* C25 -- P5, repository load: after connect_to_datasource succeeds on an
\* empty repository, the repository holds exactly the records of the JSON
\* array: the number of stored records equals the array length and every
\* array record is retrievable unchanged under its key.
C25_RepoLoad ==
    [][ IsLoadStep => HoldsArray(repo_data', repo_last'.source.records) ]_vars

\* C25, for arrays without a repeated key: after connect_to_datasource succeeds
\* on an empty repository whose JSON array has pairwise distinct keys, the
\* number of stored records equals the array length and every array record is
\* retrievable unchanged under its key; of records with the same key the last
\* one of the array is the one stored.
C25_RepoLoadDistinctKeys ==
    [][ IsLoadStep =>
          LET records == repo_last'.source.records
          IN /\ DistinctKeys(records) => HoldsArray(repo_data', records)
             /\ \A i \in 1..Len(records) :
                    (\A j \in (i+1)..Len(records) :
                         RepoKey(repo_kind, records[j]) # RepoKey(repo_kind, records[i]))
                    => MapGet(repo_data', RepoKey(repo_kind, records[i]))
                           = Some(records[i]) ]_vars

\* a repository loaded from an array of two records with different keys
C25_Witness ==
    /\ repo_last.op = "connect_to_datasource"
    /\ repo_last.ret.ok
    /\ Len(repo_last.source.records) = 2
    /\ DistinctKeys(repo_last.source.records)
    /\ HoldsArray(repo_data, repo_last.source.records)


\* the ALPN set the repository calls for
ExpectedAlpn(data) ==
    {ControlPlaneProtocol} \cup { ServiceProtocol(id) : id \in DOMAIN data }

\* C26 -- At every TLS handshake the ALPN set advertised by the gateway is
\* exactly the control-plane protocol T0CP plus one service protocol T0SRV<id>
\* for each service id present in the service repository at that time, none
\* missing and none extra.
C26_AlpnFollowsRepository ==
    [][ handshakes' # handshakes =>
            Elements(tls_alpn') = ExpectedAlpn(repo_data) ]_vars


\* the typed accessor of the tag accepted the encoding
ValidEncoding(attr) == attr.value.ok

\* C27 -- P6: stringify_asn_value is a partial function on (tag, encoding):
\* for every supported tag with a valid encoding it returns a non-empty
\* string, and for every unsupported tag it returns the UnsupportedTag error
\* naming the tag.
C27_AsnPartialFunction ==
    asn_result.kind # "none" =>
        /\ (asn_attr.tag \in SupportedTags /\ ValidEncoding(asn_attr)) =>
               (asn_result.kind = "ok" /\ asn_result.text # << >>)
        /\ asn_attr.tag \notin SupportedTags =>
               asn_result = AsnUnsupportedTag(asn_attr.tag)

\* the value of a supported tag cannot be converted: the accessor rejects the
\* encoding, or the INTEGER does not fit in i64
CannotConvert(attr) ==
    /\ attr.tag \in SupportedTags
    /\ \/ ~attr.value.ok
       \/ attr.tag = "Integer" /\ ~attr.value.val.as_i64.ok

\* C28 -- For every supported ASN.1 tag, a value that cannot be converted (for
\* example an INTEGER that does not fit in i64) makes stringify_asn_value
\* return a Conversion error value; the decoder never aborts or panics.
C28_AsnConversionError ==
    /\ asn_result.kind # "panic"
    /\ (asn_result.kind # "none" /\ CannotConvert(asn_attr)) =>
           asn_result = AsnConversionError


\* a step of poll_connection's 'EVENTS loop that received an event
ReceivedEvent ==
    /\ conn_pc = "events"
    /\ event_channel # << >>
    /\ sends_left' = sends_left
    /\ << conn_pc, event_channel >>' # << conn_pc, event_channel >>

\* `prefix` is the beginning of `seq`
IsPrefix(prefix, seq) ==
    /\ Len(prefix) <= Len(seq)
    /\ SubSeq(seq, 1, Len(prefix)) = prefix

\* C29: in one cycle of poll_connection the stream is read first, then
\* on_polling_cycle is called exactly once, also when the read failed, then the
\* events are received oldest first; the stream is read again only after the
\* queue was found empty or a Closed event was received.
C29_PollCycleOrder ==
    [][ /\ poll_cycle'.read # "again"
        /\ poll_cycle'.read # poll_cycle.read /\ poll_cycle'.read # "none"
               => poll_cycle = NewCycle
        /\ poll_cycle'.on_polling_cycle # poll_cycle.on_polling_cycle
               /\ poll_cycle' # NewCycle
               => /\ poll_cycle.read \in {"ok", "err"}
                  /\ poll_cycle'.on_polling_cycle = 1
                  /\ poll_cycle.drained = "no"
        /\ ReceivedEvent
               => /\ poll_cycle.read \in {"ok", "err"}
                  /\ poll_cycle.on_polling_cycle = 1
                  /\ IsPrefix(Tail(event_channel), event_channel')
                  /\ poll_cycle'.drained = "closed"
                         <=> Head(event_channel) = ConnectionEvent_Closed
        /\ poll_cycle'.drained = "empty" /\ poll_cycle.drained = "no"
               => event_channel = << >> /\ poll_cycle.on_polling_cycle = 1
        /\ poll_cycle' = NewCycle /\ poll_cycle # NewCycle
               => /\ poll_cycle.read \in {"ok", "err"}
                  /\ poll_cycle.on_polling_cycle = 1
                  /\ poll_cycle.drained \in {"empty", "closed"}
      ]_vars

\* a cycle whose read failed has called on_polling_cycle, has received the
\* events before a Closed event and has left the 'EVENTS loop at that event,
\* others still queued
C29_Witness ==
    /\ poll_cycle.read = "err"
    /\ poll_cycle.on_polling_cycle = 1
    /\ poll_cycle.drained = "closed"
    /\ closing_handled > 0
    /\ event_channel # << >>


\* the polling loop's last accept_message returned an error
AcceptFailed == accepted.called /\ ~accepted.ret.ok

\* C30: an error of accept_message (recv_from's WouldBlock, another receive
\* failure, a failure of the visitor's on_message_received) does not end the
\* polling loop and is not returned by poll_new_messages; on recv_from's
\* WouldBlock the visitor is not called and nothing is logged.
C30_AcceptErrorsStayInLoop ==
    [][ /\ server_pc = "poll" /\ server_pc' = "check" /\ AcceptFailed'
               => /\ polling' = polling
                  /\ polling_error' = polling_error
                  /\ << server_socket, closing, server_closed >>'
                         = << server_socket, closing, server_closed >>
        /\ server_pc = "poll" /\ server_pc' = "check"
               /\ accepted'.called /\ accepted'.recv = "would_block"
               => /\ ~accepted'.visited
                  /\ ~accepted'.logged
                  /\ datagrams' = datagrams
        /\ server_pc = "poll" /\ server_pc' = "check"
               /\ accepted'.called /\ accepted'.recv = "error"
               => ~accepted'.visited
        /\ server_pc = "check" /\ server_pc' # "check"
               /\ AcceptFailed /\ ~shutdown_flag
               => server_pc' = "poll" /\ polling'
        /\ server_pc = "after" /\ server_pc' = "idle"
               => server_last' = [op |-> "poll_new_messages", ok |-> TRUE]
      ]_vars

\* poll_new_messages has returned after an iteration whose accept_message
\* failed: at recv_from, or in the visitor
C30_Witness ==
    /\ server_pc = "idle"
    /\ server_last = [op |-> "poll_new_messages", ok |-> TRUE]
    /\ AcceptFailed
    /\ accepted.ret.err \in {"GenWithMsgAndErr", "Visitor"}
    /\ ~polling_error


\* the stored access records of a user
AccessesOfUser(data, user_id) ==
    { data[k] : k \in { x \in DOMAIN data : data[x].user_id = user_id } }

\* C31: get_all_for_user(u) returns exactly the stored access records whose
\* user_id is u, each once, an empty list when there is none, and leaves the
\* repository as it was.
C31_GetAllForUser ==
    [][ repo_last'.op = "get_all_for_user" /\ repo_last' # repo_last
            => /\ repo_last'.ret.ok
               /\ Elements(repo_last'.ret.val)
                      = AccessesOfUser(repo_data, repo_last'.key)
               /\ Len(repo_last'.ret.val)
                      = Cardinality(AccessesOfUser(repo_data, repo_last'.key))
               /\ repo_data' = repo_data
      ]_vars

\* get_all_for_user returned the two records of a user while the repository
\* also holds a record of another user
C31_Witness ==
    /\ repo_last.op = "get_all_for_user"
    /\ Len(repo_last.ret.val) = 2
    /\ \E k \in DOMAIN repo_data : repo_data[k].user_id # repo_last.key


\* C32: a gateway startup that fails, because the ports are exhausted or
\* because the service's visitor cannot be constructed, leaves service_ports,
\* service_proxies, service_proxy_visitors, service_proxy_threads and
\* next_service_port as they were.
C32_FailedStartupChangesNothing ==
    [][ (/\ IsNewStartupStep
         /\ ~result'.ret.ok
         /\ result'.ret.err \in {"exhausted", "visitor"})
        => UNCHANGED << service_ports, service_proxies, service_proxy_visitors,
                        service_proxy_threads, next_service_port >> ]_vars

\* C36: in distinct-port mode next_service_port never passes 65535, neither by
\* a panic nor by wrapping to 0, and every port handed out is in [start, end].
C36_PortArithmeticIn16Bits ==
    IsSome(gateway_service_ports) =>
        /\ ~panicked
        /\ RangeStart <= next_service_port
        /\ next_service_port <= U16_MAX
        /\ \A p \in PortsInUse : RangeStart <= p /\ p <= RangeEnd


\* C33: once the connection is shut down and closed, poll_connection hands no
\* Write event to write, also when Write events were queued behind the
\* Closing event.
C33_NoWriteAfterClosed ==
    [][ ReceivedEvent /\ closed /\ stream_shutdowns >= 1
            => Head(event_channel).type # "Write" ]_vars


\* C34: after the peer's orderly close, when reads of the stream return zero
\* bytes, a Closing event is eventually enqueued and poll_connection
\* eventually returns with closed true.
C34_PeerCloseTerminates ==
    /\ <>ClosingEnqueued
    /\ <>(conn_pc = "returned" /\ closed)


\* the thread whose lock `thread` waits for ("none": it does not wait)
WaitsFor(thread) ==
    IF Wanted(thread) = "none" THEN "none" ELSE lock_owner[Wanted(thread)]

\* the threads wait for each other in a circle
Deadlocked ==
    \E t \in Threads :
        \/ WaitsFor(t) = t
        \/ \E u \in Threads \ {t} :
              /\ WaitsFor(t) = u
              /\ \/ WaitsFor(u) = t
                 \/ \E w \in Threads \ {t, u} : WaitsFor(u) = w /\ WaitsFor(w) = t

\* C35: the event poller and the callers of startup and shutdown never
\* deadlock: each of them holds the manager's lock whenever it holds or asks
\* for a visitor's or the registry's lock, asks for the manager's lock only
\* while it holds no lock, and never asks for a lock it holds.
C35_ManagerDeadlockFree ==
    /\ ~Deadlocked
    /\ \A t \in {"poller", "control"} :
          /\ Held(t) \ {"manager"} # {} => "manager" \in Held(t)
          /\ Wanted(t) \notin {"none", "manager"} => "manager" \in Held(t)
          /\ Wanted(t) = "manager" => Held(t) = {}
    /\ \A t \in Threads : Wanted(t) = "none" \/ Wanted(t) \notin Held(t)

\* the poller, inside remove_proxy_for_key with the manager and a visitor
\* locked, waits for the registry, which the listener of the other visitor
\* holds, while the caller of a shutdown waits for the manager
C35_Witness ==
    /\ Held("poller") = {"manager", "visitor_a"}
    /\ Wanted("poller") = "registry"
    /\ Held("listener") = {"visitor_b", "registry"}
    /\ Wanted("control") = "manager"
    /\ Len(thread_ops["control"]) > 2


\* C37: in every state of the UDP server, whatever the order of
\* bind_listener, poll_new_messages, shutdown and stop_poller: closed implies
\* no socket and no polling, and polling implies a socket.
C37_ServerFlagsConsistent ==
    /\ server_closed => ~server_socket /\ ~polling
    /\ polling => server_socket

\* the server was bound, polled and shut down from its polling loop
C37_Witness ==
    /\ server_closed
    /\ ~server_socket
    /\ server_pc = "idle"
    /\ server_last = [op |-> "poll_new_messages", ok |-> TRUE]
    /\ datagrams > 0


\* C38: once polling has started poll_new_messages returns Ok; a poll failure
\* other than WouldBlock ends the loop and leaves the socket bound and closed
\* false unless shutdown was requested; poll_new_messages returns an error
\* only before polling starts (no socket, already polling, poller setup
\* failure) and then changes nothing.
C38_PollReturnsOk ==
    [][ /\ server_pc = "after" /\ server_pc' = "idle"
            => /\ server_last' = [op |-> "poll_new_messages", ok |-> TRUE]
               /\ polling_error /\ ~shutdown_flag
                      => server_socket' /\ ~server_closed'
        /\ server_pc = "poll" /\ polling_error' /\ ~polling_error
            => ~polling' /\ server_pc' = "check"
        /\ server_pc = "check" /\ server_pc' # "check" /\ polling_error
            => server_pc' = "after"
        /\ server_last'.op = "poll_new_messages" /\ ~server_last'.ok
            => /\ server_pc = "idle" /\ server_pc' = "idle"
               /\ UNCHANGED << server_socket, polling, closing, server_closed >>
      ]_vars

\* poll_new_messages has returned Ok after a poll failure: the socket is still
\* bound and the server is not closed
C38_Witness ==
    /\ server_pc = "idle"
    /\ server_last = [op |-> "poll_new_messages", ok |-> TRUE]
    /\ polling_error
    /\ server_socket
    /\ ~server_closed
    /\ ~polling


\* C39: every range parse_gateway_service_ports accepts has
\* 1 <= start <= end <= 65535, so that the manager built from it is not
\* exhausted before its first allocation.
C39_AcceptedRangeOrdered ==
    ports_parsed.kind = "ok" =>
        LET range == ports_parsed.val
            new == GatewayServiceMgr_new(Some(range), GATEWAY_SHARED_PORT)
        IN  /\ 1 <= range[1]
            /\ range[1] <= range[2]
            /\ range[2] <= U16_MAX
            /\ ~PortsExhausted(new.next_service_port, new.last_service_port)

====
